---- MODULE Spec2Model ----
(***************************************************************************)
(* A model of the voxel world of js/game/world.js (chunk store, terrain    *)
(* generation, greedy meshing, streaming around the player) together with  *)
(* the parts of js/game/player.js, js/game/input.js and js/main.js that    *)
(* drive it.                                                               *)
(*                                                                         *)
(* Geometry is scaled down: the source has CHUNK_SIZE = 16,                *)
(* WORLD_HEIGHT = 64 and RENDER_DISTANCE = 8; the model keeps the code's   *)
(* formulas and is explored with small values of the three sizes.          *)
(* Lengths (positions, velocities) are fixed-point numbers, 1000 units to  *)
(* one block.                                                              *)
(***************************************************************************)
EXTENDS Integers, Sequences, FiniteSets, TLC

CHUNK_SIZE == 2

WORLD_HEIGHT == 5

RENDER_DISTANCE == 1

BLOCKS ==
  [air |-> 0, stone |-> 1, cobblestone |-> 2, dirt |-> 3, grass |-> 4,
   logs |-> 5, leaves |-> 6, planks |-> 7, glass |-> 8, bricks |-> 9]

VARIABLES
  seed,           \* the noise seed drawn when world.js is loaded
  rng,            \* the hidden state of Math.random()
  chunks,         \* chunk key <<cx, cz>> -> chunk record
  player,         \* position, velocity, onGround, forward, right
  isFlying,       \* input.js: the fly toggle
  mouseLocked,    \* input.js: pointer lock
  gameIsRunning,  \* main.js
  loader,         \* the position of startGame / generateInitialWorld
  released,       \* history: the meshes no chunk refers to any more
  created,        \* history: how often a chunk was created per key, up to 2
  lastOp,         \* history: the last operation and what it returned
  edits           \* the number of setBlock calls made (bounded exploration)

vars ==
  <<seed, rng, chunks, player, isFlying, mouseLocked, gameIsRunning,
    loader, released, created, lastOp, edits>>

-----------------------------------------------------------------------------
(* Numbers *)

\* JavaScript's % : the remainder takes the sign of the dividend.
JsRem(a, n) == IF a >= 0 THEN a % n ELSE -((-a) % n)

Abs(a) == IF a < 0 THEN -a ELSE a

Max(a, b) == IF a >= b THEN a ELSE b

Min(a, b) == IF a <= b THEN a ELSE b

\* n/d of a block as a fixed-point length.
Fixed(n, d) == (n * 1000) \div d

\* Math.floor of a fixed-point length, as a block coordinate.
Floor(v) == v \div 1000

\* An element store that keeps three bits: C1 tells it from ToUint8.
ToUint3(t) == t % 8

\* Uint8Array element store.
ToUint8(t) == t % 256

\* The loops of the code are recursions here; each iteration starts once
\* Done(v) holds of the value v handed on by the iteration before it.
Done(v) == v = v

-----------------------------------------------------------------------------
(* Math.random(): a generator with hidden state; every call advances it.   *)
(* The model's generator has ten states and returns state/10.              *)

RandomNext(s) == (s + 7) % 10

\* The value returned by the call made in state s, in thousandths.
RandomValue(s) == s * 100

\* Math.floor(Math.random() * n) for the call made in state s.
RandomInt(s, n) == (RandomValue(s) * n) \div 1000

-----------------------------------------------------------------------------
(* perlin2D: a pure function of the seed and the sample point.  The model  *)
(* returns one of four levels (0..3 for [-1, 1]) and takes the feature     *)
(* size of the sampled frequency instead of the frequency: 4 cells for     *)
(* 0.003, 2 for 0.015, 1 for 0.03.                                         *)

perlin2D(size, wx, wz) == ((wx \div size) + 2 * (wz \div size) + seed) % 4

GROUND_LEVEL == WORLD_HEIGHT \div 2

\* The mountain height from which the surface block is stone or cobblestone
\* (5 in the source, where the world is 64 high).
STEEP_HEIGHT == 2

MountainHeight(wx, wz) ==
  LET mountainFactor == Max(0, perlin2D(4, wx, wz) - 2)
      mountainDetail == perlin2D(1, wx, wz) - 1
  IN  mountainFactor * mountainFactor * (2 + mountainDetail)

SurfaceY(wx, wz) ==
  LET baseHills == perlin2D(2, wx, wz) - 2
  IN  GROUND_LEVEL + baseHills + MountainHeight(wx, wz)

-----------------------------------------------------------------------------
(* Chunks *)

CellCount == CHUNK_SIZE * WORLD_HEIGHT * CHUNK_SIZE

CellIndex(x, y, z) == x + z * CHUNK_SIZE + y * CHUNK_SIZE * CHUNK_SIZE

ChunkKey(chunkX, chunkZ) == <<chunkX, chunkZ>>

\* Generation threads the block grid b and the state r of Math.random().
Put(st, x, y, z, t) == [st EXCEPT !.b[CellIndex(x, y, z)] = ToUint8(t)]

Draw(st) == [st EXCEPT !.r = RandomNext(st.r)]

InChunkXZ(x, z) == x >= 0 /\ x < CHUNK_SIZE /\ z >= 0 /\ z < CHUNK_SIZE

\* for (i = 0; i < treeHeight; i++) if (y + i < WORLD_HEIGHT) blocks[...] = logs
RECURSIVE Trunk(_, _, _, _, _, _)
Trunk(st, i, treeHeight, x, y, z) ==
  IF ~Done(st) \/ i >= treeHeight THEN st
  ELSE Trunk(IF x < CHUNK_SIZE /\ z < CHUNK_SIZE /\ y + i < WORLD_HEIGHT
               THEN Put(st, x, y + i, z, BLOCKS.logs) ELSE st,
             i + 1, treeHeight, x, y, z)

\* The leaf loops of the three tree kinds: dx (outer) and dz from lo to hi,
\* dy (inner) from 0 to top, the cells the kind skips, and the fill threshold
\* in thousandths.
LeafShape(kind) ==
  CASE kind = "oak"   -> [lo |-> -2, hi |-> 2, top |-> 2, fill |-> 800]
    [] kind = "tall"  -> [lo |-> -1, hi |-> 1, top |-> 3, fill |-> 900]
    [] kind = "large" -> [lo |-> -3, hi |-> 4, top |-> 4, fill |-> 700]

LeafSkipped(kind, dx, dy, dz) ==
  CASE kind = "oak"   -> Abs(dx) + Abs(dz) + Abs(dy) > 3
    [] kind = "tall"  -> FALSE
    \* Math.sqrt(dx*dx + dz*dz + dy*dy*0.5) > 4
    [] kind = "large" -> 2 * dx * dx + 2 * dz * dz + dy * dy > 32

\* The body of the leaf loops for one cell.
Leaf(st, kind, leafX, leafYPos, leafZ) ==
  IF InChunkXZ(leafX, leafZ) /\ leafYPos < WORLD_HEIGHT
       /\ st.b[CellIndex(leafX, leafYPos, leafZ)] = BLOCKS.air
    THEN IF RandomValue(st.r) < LeafShape(kind).fill
           THEN Put(Draw(st), leafX, leafYPos, leafZ, BLOCKS.leaves)
           ELSE Draw(st)
    ELSE st

\* for (dy = 0; dy <= top; dy++)
RECURSIVE LeavesY(_, _, _, _, _, _, _, _)
LeavesY(st, kind, x, leafY, z, dx, dz, dy) ==
  IF ~Done(st) \/ dy > LeafShape(kind).top THEN st
  ELSE LeavesY(IF LeafSkipped(kind, dx, dy, dz) THEN st
               ELSE Leaf(st, kind, x + dx, leafY + dy, z + dz),
               kind, x, leafY, z, dx, dz, dy + 1)

\* for (dz = lo; dz <= hi; dz++)
RECURSIVE LeavesZ(_, _, _, _, _, _, _)
LeavesZ(st, kind, x, leafY, z, dx, dz) ==
  IF ~Done(st) \/ dz > LeafShape(kind).hi THEN st
  ELSE LeavesZ(LeavesY(st, kind, x, leafY, z, dx, dz, 0),
               kind, x, leafY, z, dx, dz + 1)

\* for (dx = lo; dx <= hi; dx++)
RECURSIVE LeavesX(_, _, _, _, _, _)
LeavesX(st, kind, x, leafY, z, dx) ==
  IF ~Done(st) \/ dx > LeafShape(kind).hi THEN st
  ELSE LeavesX(LeavesZ(st, kind, x, leafY, z, dx, LeafShape(kind).lo),
               kind, x, leafY, z, dx + 1)

Leaves(st, kind, x, leafY, z) == LeavesX(st, kind, x, leafY, z, LeafShape(kind).lo)

generateOakTree(st, x, y, z) ==
  LET treeHeight == 4 + RandomInt(st.r, 3)
  IN  Leaves(Trunk(Draw(st), 0, treeHeight, x, y, z),
             "oak", x, y + treeHeight - 1, z)

generateTallTree(st, x, y, z) ==
  LET treeHeight == 8 + RandomInt(st.r, 4)
  IN  Leaves(Trunk(Draw(st), 0, treeHeight, x, y, z),
             "tall", x, y + treeHeight - 2, z)

\* The 2x2 trunk: dx outer, dz inner.
generateLargeTree(st, x, y, z) ==
  LET treeHeight == 6 + RandomInt(st.r, 3)
      t00 == Trunk(Draw(st), 0, treeHeight, x, y, z)
      t01 == Trunk(t00, 0, treeHeight, x, y, z + 1)
      t10 == Trunk(t01, 0, treeHeight, x + 1, y, z)
      t11 == Trunk(t10, 0, treeHeight, x + 1, y, z + 1)
  IN  Leaves(t11, "large", x, y + treeHeight - 2, z)

generateTree(st, x, y, z) ==
  LET treeType == RandomValue(st.r)
  IN  IF treeType < 700 THEN generateOakTree(Draw(st), x, y, z)
      ELSE IF treeType < 900 THEN generateTallTree(Draw(st), x, y, z)
      ELSE generateLargeTree(Draw(st), x, y, z)

\* One iteration of the y loop of generateChunk for the column (x, z).
FillCell(st, chunkX, chunkZ, x, y, z) ==
  LET worldX == chunkX * CHUNK_SIZE + x
      worldZ == chunkZ * CHUNK_SIZE + z
      mountainHeight == MountainHeight(worldX, worldZ)
      surfaceY == SurfaceY(worldX, worldZ)
  IN  IF y = surfaceY THEN
        IF mountainHeight < STEEP_HEIGHT THEN
          LET g == Put(st, x, y, z, BLOCKS.grass)
          IN  IF mountainHeight = 0
                THEN IF RandomValue(g.r) < 8
                       THEN generateTree(Draw(g), x, y + 1, z)
                       ELSE Draw(g)
                ELSE g
        ELSE Put(Draw(st), x, y, z,
                 IF RandomValue(st.r) < 700 THEN BLOCKS.stone
                                            ELSE BLOCKS.cobblestone)
      ELSE IF y < surfaceY /\ y > surfaceY - 4 THEN Put(st, x, y, z, BLOCKS.dirt)
      ELSE IF y < surfaceY - 3 THEN Put(st, x, y, z, BLOCKS.stone)
      ELSE st

\* The loops of generateChunk: x outer, then z, then y.
RECURSIVE FillColumn(_, _, _, _, _, _)
FillColumn(st, chunkX, chunkZ, x, z, y) ==
  IF ~Done(st) \/ y >= WORLD_HEIGHT THEN st
  ELSE FillColumn(FillCell(st, chunkX, chunkZ, x, y, z), chunkX, chunkZ, x, z, y + 1)

RECURSIVE FillRow(_, _, _, _, _)
FillRow(st, chunkX, chunkZ, x, z) ==
  IF ~Done(st) \/ z >= CHUNK_SIZE THEN st
  ELSE FillRow(FillColumn(st, chunkX, chunkZ, x, z, 0), chunkX, chunkZ, x, z + 1)

RECURSIVE FillChunk(_, _, _, _)
FillChunk(st, chunkX, chunkZ, x) ==
  IF ~Done(st) \/ x >= CHUNK_SIZE THEN st
  ELSE FillChunk(FillRow(st, chunkX, chunkZ, x, 0), chunkX, chunkZ, x + 1)

\* How often a chunk was created for a key, counted up to 2.
Count(cr, key) == IF key \in DOMAIN cr THEN cr[key] ELSE 0

\* generateChunk on the store w = [chunks, rng, created, made, released]:
\* nothing if the key is stored, else a new chunk, filled, with no mesh and
\* needsUpdate set.  made lists the keys created by the running operation.
\* chunks[chunkKey] = chunk, with the grid and the generator state that the
\* loops of generateChunk left in filled.
StoreChunk(w, chunkX, chunkZ, filled) ==
  LET chunkKey == ChunkKey(chunkX, chunkZ)
      chunk == [x |-> chunkX, z |-> chunkZ, blocks |-> filled.b,
                mesh |-> <<>>, needsUpdate |-> TRUE]
  IN  [w EXCEPT
         !.chunks = [k \in DOMAIN w.chunks \cup {chunkKey} |->
                       IF k = chunkKey THEN chunk ELSE w.chunks[k]],
         !.rng = filled.r,
         !.created = [k \in DOMAIN w.created \cup {chunkKey} |->
                        IF k = chunkKey THEN Min(Count(w.created, k) + 1, 2)
                        ELSE w.created[k]],
         !.made = Append(w.made, chunkKey)]

\* new Uint8Array(CHUNK_SIZE * WORLD_HEIGHT * CHUNK_SIZE), with Math.random()
\* in state r.
EmptyGrid(r) == [b |-> [i \in 0 .. CellCount - 1 |-> 0], r |-> r]

\* generateChunk without the return for a stored key: C7 tells it apart.
generateChunkAgain(w, chunkX, chunkZ) ==
  StoreChunk(w, chunkX, chunkZ, FillChunk(EmptyGrid(w.rng), chunkX, chunkZ, 0))

generateChunk(w, chunkX, chunkZ) ==
  IF ChunkKey(chunkX, chunkZ) \in DOMAIN w.chunks THEN w
  ELSE StoreChunk(w, chunkX, chunkZ, FillChunk(EmptyGrid(w.rng), chunkX, chunkZ, 0))

-----------------------------------------------------------------------------
(* World-space block access *)

LocalCoord(a) == JsRem(JsRem(a, CHUNK_SIZE) + CHUNK_SIZE, CHUNK_SIZE)

ChunkCoord(a) == a \div CHUNK_SIZE

\* getBlock reading stone where no chunk is stored: C3 tells it apart.
getBlockOrStone(chs, x, y, z) ==
  IF y < 0 \/ y >= WORLD_HEIGHT THEN BLOCKS.air
  ELSE IF ChunkKey(ChunkCoord(x), ChunkCoord(z)) \notin DOMAIN chs THEN BLOCKS.stone
  ELSE chs[ChunkKey(ChunkCoord(x), ChunkCoord(z))].blocks[
         CellIndex(LocalCoord(x), y, LocalCoord(z))]

getBlock(chs, x, y, z) ==
  LET chunkKey == ChunkKey(ChunkCoord(x), ChunkCoord(z))
      index == CellIndex(LocalCoord(x), y, LocalCoord(z))
  IN  IF y < 0 \/ y >= WORLD_HEIGHT THEN BLOCKS.air
      ELSE IF chunkKey \notin DOMAIN chs THEN BLOCKS.air
      ELSE IF chs[chunkKey].blocks[index] # 0 THEN chs[chunkKey].blocks[index]
      ELSE BLOCKS.air

\* setBlock marking no neighbour: C4 tells it apart.
MarkNothing(onBorder, chs, key) == chs

\* if (onBorder && chunks[key]) chunks[key].needsUpdate = true
MarkIfStored(onBorder, chs, key) ==
  IF onBorder /\ key \in DOMAIN chs THEN [chs EXCEPT ![key].needsUpdate = TRUE]
  ELSE chs

\* Writes that reach the cell above as well.
WriteBlockAndAbove(chs, x, y, z, blockType) ==
  LET chunkX == ChunkCoord(x)
      chunkZ == ChunkCoord(z)
      chunkKey == ChunkKey(chunkX, chunkZ)
      localX == LocalCoord(x)
      localZ == LocalCoord(z)
      written == {CellIndex(localX, y, localZ),
                  CellIndex(localX, (y + 1) % WORLD_HEIGHT, localZ)}
  IN  MarkIfStored(localZ = CHUNK_SIZE - 1,
        MarkIfStored(localZ = 0,
          MarkIfStored(localX = CHUNK_SIZE - 1,
            MarkIfStored(localX = 0,
              [chs EXCEPT ![chunkKey].blocks =
                            [i \in DOMAIN @ |->
                               IF i \in written THEN ToUint8(blockType) ELSE @[i]],
                          ![chunkKey].needsUpdate = TRUE],
              ChunkKey(chunkX - 1, chunkZ)),
            ChunkKey(chunkX + 1, chunkZ)),
          ChunkKey(chunkX, chunkZ - 1)),
        ChunkKey(chunkX, chunkZ + 1))

\* The writes of setBlock once the owning chunk is stored in chs.
WriteBlock(chs, x, y, z, blockType) ==
  LET chunkX == ChunkCoord(x)
      chunkZ == ChunkCoord(z)
      chunkKey == ChunkKey(chunkX, chunkZ)
      localX == LocalCoord(x)
      localZ == LocalCoord(z)
      index == CellIndex(localX, y, localZ)
  IN  MarkIfStored(localZ = CHUNK_SIZE - 1,
        MarkIfStored(localZ = 0,
          MarkIfStored(localX = CHUNK_SIZE - 1,
            MarkIfStored(localX = 0,
              [chs EXCEPT ![chunkKey].blocks[index] = ToUint8(blockType),
                          ![chunkKey].needsUpdate = TRUE],
              ChunkKey(chunkX - 1, chunkZ)),
            ChunkKey(chunkX + 1, chunkZ)),
          ChunkKey(chunkX, chunkZ - 1)),
        ChunkKey(chunkX, chunkZ + 1))

WithChunks(w, chs) == [w EXCEPT !.chunks = chs]

\* The store g is w after the generateChunk call that setBlock makes when
\* the owning chunk is missing.
SetBlockIn(g, x, y, z, blockType) ==
  WithChunks(g, WriteBlock(g.chunks, x, y, z, blockType))

\* setBlock without the test of y against the world height.
setBlockAtAnyHeight(w, x, y, z, blockType) ==
  SetBlockIn(IF ChunkKey(ChunkCoord(x), ChunkCoord(z)) \notin DOMAIN w.chunks
               THEN generateChunk(w, ChunkCoord(x), ChunkCoord(z))
               ELSE w,
             x, y, z, blockType)

\* setBlock on the store w.
setBlock(w, x, y, z, blockType) ==
  IF y < 0 \/ y >= WORLD_HEIGHT THEN w
  ELSE SetBlockIn(IF ChunkKey(ChunkCoord(x), ChunkCoord(z)) \notin DOMAIN w.chunks
                    THEN generateChunk(w, ChunkCoord(x), ChunkCoord(z))
                    ELSE w,
                  x, y, z, blockType)

-----------------------------------------------------------------------------
(* Greedy meshing *)

getBlockInChunk(blocks, x, y, z) ==
  IF x < 0 \/ x >= CHUNK_SIZE \/ y < 0 \/ y >= WORLD_HEIGHT
       \/ z < 0 \/ z >= CHUNK_SIZE
    THEN BLOCKS.air
  ELSE IF blocks[CellIndex(x, y, z)] # 0 THEN blocks[CellIndex(x, y, z)]
  ELSE BLOCKS.air

\* dims, indexed by axis 0..2.
Dims(axis) == IF axis = 1 THEN WORLD_HEIGHT ELSE CHUNK_SIZE

\* The array x of the mesher with x[axis] = a, x[u] = i, x[v] = j.
Place(axis, a, i, j) ==
  LET u == (axis + 1) % 3
  IN  [k \in 1 .. 3 |-> IF k = axis + 1 THEN a ELSE IF k = u + 1 THEN i ELSE j]

\* A mask that is set wherever the two block types differ.
SliceMaskByType(blocks, axis, s) ==
  LET u == (axis + 1) % 3
  IN  [n \in 0 .. Dims(u) * Dims((axis + 2) % 3) - 1 |->
         LET a == Place(axis, s, n % Dims(u), n \div Dims(u))
             b == Place(axis, s + 1, n % Dims(u), n \div Dims(u))
             blockA == IF s >= 0 THEN getBlockInChunk(blocks, a[1], a[2], a[3]) ELSE 0
             blockB == IF s < Dims(axis) - 1
                         THEN getBlockInChunk(blocks, b[1], b[2], b[3]) ELSE 0
         IN  IF blockA = blockB THEN 0
             ELSE IF blockA # 0 THEN blockA
             ELSE -blockB]

\* The mask of the plane between slice s and slice s + 1 of the axis.
SliceMask(blocks, axis, s) ==
  LET u == (axis + 1) % 3
      v == (axis + 2) % 3
  IN  [n \in 0 .. Dims(u) * Dims(v) - 1 |->
         LET a == Place(axis, s, n % Dims(u), n \div Dims(u))
             b == Place(axis, s + 1, n % Dims(u), n \div Dims(u))
             blockA == IF s >= 0 THEN getBlockInChunk(blocks, a[1], a[2], a[3]) ELSE 0
             blockB == IF s < Dims(axis) - 1
                         THEN getBlockInChunk(blocks, b[1], b[2], b[3]) ELSE 0
         IN  IF (blockA # 0) = (blockB # 0) THEN 0
             ELSE IF blockA # 0 THEN blockA
             ELSE -blockB]

\* Quads of one column only.
QuadWidthOne(mask, n, i, w, du) == w

\* let w = 1; while (i + w < dims[u] && mask[n + w] === currentMask) w++;
RECURSIVE QuadWidth(_, _, _, _, _)
QuadWidth(mask, n, i, w, du) ==
  IF i + w < du /\ mask[n + w] = mask[n] THEN QuadWidth(mask, n, i, w + 1, du) ELSE w

\* Quads of one row only.
QuadHeightOne(mask, n, j, w, h, du, dv) == h

\* The h loop: rows are added while the whole run of width w matches.
RECURSIVE QuadHeight(_, _, _, _, _, _, _)
QuadHeight(mask, n, j, w, h, du, dv) ==
  IF j + h < dv /\ \A k \in 0 .. w - 1 : mask[n + k + h * du] = mask[n]
    THEN QuadHeight(mask, n, j, w, h + 1, du, dv)
    ELSE h

Quad(axis, at, i, j, w, h, currentMask) ==
  LET u == (axis + 1) % 3
      v == (axis + 2) % 3
      x == Place(axis, at, i, j)
      du == [k \in 1 .. 3 |-> IF k = u + 1 THEN w ELSE 0]
      dv == [k \in 1 .. 3 |-> IF k = v + 1 THEN h ELSE 0]
      v1 == x
      v2 == [k \in 1 .. 3 |-> x[k] + du[k]]
      v3 == [k \in 1 .. 3 |-> x[k] + du[k] + dv[k]]
      v4 == [k \in 1 .. 3 |-> x[k] + dv[k]]
  IN  [vertices |-> IF currentMask > 0 THEN <<v1, v2, v3, v4>> ELSE <<v1, v4, v3, v2>>,
       normal |-> [k \in 1 .. 3 |->
                     IF k = axis + 1 THEN (IF currentMask > 0 THEN 1 ELSE -1) ELSE 0],
       blockType |-> Abs(currentMask)]

\* The scan of one mask, from cell (i, j) on, appending to faces.
RECURSIVE ScanMask(_, _, _, _, _, _)
ScanMask(mask, i, j, axis, at, faces) ==
  LET du == Dims((axis + 1) % 3)
      dv == Dims((axis + 2) % 3)
      n == i + j * du
      w == QuadWidth(mask, n, i, 1, du)
      h == QuadHeight(mask, n, j, w, 1, du, dv)
      cleared == [m \in DOMAIN mask |->
                    IF /\ m % du >= i /\ m % du < i + w
                       /\ m \div du >= j /\ m \div du < j + h
                      THEN 0 ELSE mask[m]]
  IN  IF ~Done(mask) \/ ~Done(faces) \/ j >= dv THEN faces
      ELSE IF i >= du THEN ScanMask(mask, 0, j + 1, axis, at, faces)
      ELSE IF mask[n] # 0
        THEN ScanMask(cleared, i + w, j, axis, at,
                      Append(faces, Quad(axis, at, i, j, w, h, mask[n])))
      ELSE ScanMask(mask, i + 1, j, axis, at, faces)

\* for (x[axis] = -1; x[axis] < dims[axis];) { mask; x[axis]++; scan }
RECURSIVE SweepAxis(_, _, _, _)
SweepAxis(blocks, axis, s, faces) ==
  IF ~Done(faces) \/ s >= Dims(axis) THEN faces
  ELSE SweepAxis(blocks, axis, s + 1,
                 ScanMask(SliceMask(blocks, axis, s), 0, 0, axis, s + 1, faces))

\* for (axis = 0; axis < 3; axis++)
greedyMeshChunk(blocks) ==
  SweepAxis(blocks, 2, -1, SweepAxis(blocks, 1, -1, SweepAxis(blocks, 0, -1, <<>>)))

-----------------------------------------------------------------------------
(* Meshes.  chunk.mesh is <<>> (null) or <<m>>; m records the faces the    *)
(* geometry was built from, how often it was disposed, and whether it is   *)
(* in the scene.  A mesh no chunk refers to any more is summarised in      *)
(* released.                                                               *)

HasMesh(chunk) == chunk.mesh # <<>>

\* scene.remove(mesh); mesh.geometry.dispose(); mesh.material.dispose()
Dispose(m) == [m EXCEPT !.inScene = FALSE, !.disposed = m.disposed + 1]

MeshSummary(m) == [disposed |-> m.disposed, inScene |-> m.inScene]

PlayerChunk(p) == p \div Fixed(CHUNK_SIZE, 1)

ChunkDistance(chunk, position) ==
  Max(Abs(chunk.x - PlayerChunk(position.x)), Abs(chunk.z - PlayerChunk(position.z)))

\* createChunkMesh from the faces on: the chunk afterwards and the meshes no
\* longer referred to.  With no faces chunk.mesh stays the disposed mesh.
MeshFromFaces(chunk, position, faces) ==
  LET old == IF HasMesh(chunk) THEN <<Dispose(chunk.mesh[1])>> ELSE <<>>
      mesh == [faces |-> faces, disposed |-> 0, inScene |-> TRUE, visible |-> TRUE,
               castShadow |-> ChunkDistance(chunk, position) <= 3]
  IN  IF Len(faces) = 0
        THEN [chunk |-> [chunk EXCEPT !.mesh = old, !.needsUpdate = FALSE],
              dropped |-> {}]
        ELSE [chunk |-> [chunk EXCEPT !.mesh = <<mesh>>, !.needsUpdate = FALSE],
              dropped |-> {MeshSummary(old[i]) : i \in DOMAIN old}]

createChunkMesh(chunk, position) ==
  MeshFromFaces(chunk, position, greedyMeshChunk(chunk.blocks))

-----------------------------------------------------------------------------
(* Streaming *)

\* Loops that stop one chunk short of +RENDER_DISTANCE: C5 tells them apart.
SideCutShort == 2 * RENDER_DISTANCE

\* The number of iterations of a loop from -RENDER_DISTANCE to +RENDER_DISTANCE.
Side == 2 * RENDER_DISTANCE + 1

\* A row of which only the first chunk is generated.
GenerateRowFirstOnly(w, x, k, pcx, pcz) ==
  IF k >= 1 THEN w ELSE generateChunk(w, x, pcz - RENDER_DISTANCE)

\* The z loop of one row of chunks around (pcx, pcz), from column k on.
RECURSIVE GenerateRow(_, _, _, _, _)
GenerateRow(w, x, k, pcx, pcz) ==
  IF ~Done(w) \/ k >= Side THEN w
  ELSE GenerateRow(generateChunk(w, x, pcz - RENDER_DISTANCE + k), x, k + 1, pcx, pcz)

\* The x loop, from row r on.
RECURSIVE GenerateRows(_, _, _, _)
GenerateRows(w, r, pcx, pcz) ==
  IF ~Done(w) \/ r >= Side THEN w
  ELSE GenerateRows(GenerateRow(w, pcx - RENDER_DISTANCE + r, 0, pcx, pcz),
                    r + 1, pcx, pcz)

\* frustum.intersectsBox(chunkBounds): the model takes for the frustum the
\* half-space in front of the camera, which is at the player's position and
\* looks along -z, -x, +z or +x (look = 0, 1, 2, 3).
IntersectsBox(look, position, chunk) ==
  CASE look = 0 -> Fixed(chunk.z * CHUNK_SIZE, 1) <= position.z
    [] look = 1 -> Fixed(chunk.x * CHUNK_SIZE, 1) <= position.x
    [] look = 2 -> Fixed((chunk.z + 1) * CHUNK_SIZE, 1) >= position.z
    [] look = 3 -> Fixed((chunk.x + 1) * CHUNK_SIZE, 1) >= position.x

\* if (chunk.mesh) { chunk.mesh.visible = true; renderedChunks++; ... }, on
\* the outcome of the createChunkMesh call before it.
Shown(made) ==
  IF HasMesh(made.chunk)
    THEN [chunk |-> [made.chunk EXCEPT !.mesh[1].visible = TRUE],
          dropped |-> made.dropped, rendered |-> 1,
          blocks |-> Len(made.chunk.mesh[1].faces)]
    ELSE [chunk |-> made.chunk, dropped |-> made.dropped, rendered |-> 0, blocks |-> 0]

\* A loop body that meshes and shows the chunk wherever it is.
VisitChunkAnywhere(chunk, position, look) ==
  Shown(IF chunk.needsUpdate \/ ~HasMesh(chunk)
          THEN createChunkMesh(chunk, position)
          ELSE [chunk |-> chunk, dropped |-> {}])

\* The body of the loop over Object.entries(chunks) for one chunk that stays.
VisitChunk(chunk, position, look) ==
  IF IntersectsBox(look, position, chunk)
    THEN Shown(IF chunk.needsUpdate \/ ~HasMesh(chunk)
                 THEN createChunkMesh(chunk, position)
                 ELSE [chunk |-> chunk, dropped |-> {}])
    ELSE [chunk |-> IF HasMesh(chunk)
                      THEN [chunk EXCEPT !.mesh[1].visible = FALSE] ELSE chunk,
          dropped |-> {}, rendered |-> 0, blocks |-> 0]

\* A chunk beyond RENDER_DISTANCE + 2: its mesh is removed and disposed in
\* the loop over the entries and again in the loop over chunksToRemove.
EvictedMesh(chunk) ==
  IF HasMesh(chunk) THEN {MeshSummary(Dispose(Dispose(chunk.mesh[1])))} ELSE {}

RECURSIVE SumOver(_, _)
SumOver(f, S) ==
  IF S = {} THEN 0
  ELSE LET k == CHOOSE k \in S : TRUE IN f[k] + SumOver(f, S \ {k})

\* Eviction without the margin of 2: C6 tells it apart.
ChunksBeyondRenderDistance(chs, position) ==
  {key \in DOMAIN chs : ChunkDistance(chs[key], position) > RENDER_DISTANCE}

\* Eviction from the rim of the generated square on.
ChunksFromTheRim(chs, position) ==
  {key \in DOMAIN chs : ChunkDistance(chs[key], position) >= RENDER_DISTANCE}

\* The keys pushed on chunksToRemove.
ChunksToRemove(chs, position) ==
  {key \in DOMAIN chs : ChunkDistance(chs[key], position) > RENDER_DISTANCE + 2}

\* The end of updateWorld: the chunks on chunksToRemove are deleted; visit
\* has the outcome of the loop body for every other chunk.
Swept(g, position, visit) ==
  IF ~Done(visit) THEN g ELSE
  [chunks |-> [key \in DOMAIN visit |-> visit[key].chunk],
   rng |-> g.rng,
   created |-> g.created,
   made |-> g.made,
   released |->
     g.released
       \cup UNION {visit[key].dropped : key \in DOMAIN visit}
       \cup UNION {EvictedMesh(g.chunks[key]) :
                     key \in ChunksToRemove(g.chunks, position)},
   renderedChunks |-> SumOver([key \in DOMAIN visit |-> visit[key].rendered],
                              DOMAIN visit),
   totalBlocks |-> SumOver([key \in DOMAIN visit |-> visit[key].blocks],
                           DOMAIN visit)]

\* updateWorld from the loop over Object.entries(chunks) on; g is the store
\* after the generation loops.
Streamed(g, position, look) ==
  IF ~Done(g) THEN g ELSE
  Swept(g, position,
        [key \in DOMAIN g.chunks \ ChunksToRemove(g.chunks, position) |->
           VisitChunk(g.chunks[key], position, look)])

\* updateWorld on the store w.
updateWorld(w, position, look) ==
  Streamed(GenerateRows(w, 0, PlayerChunk(position.x), PlayerChunk(position.z)),
           position, look)

-----------------------------------------------------------------------------
(* The player (js/game/player.js).  Vectors are records [x, y, z] of       *)
(* fixed-point lengths; a unit vector has length 1000.                     *)

GRAVITY == Fixed(1, 100)
MAX_SPEED_GROUND == Fixed(3, 10)
MAX_SPEED_AIR == Fixed(2, 100)
ACCEL_GROUND == Fixed(2, 10)
ACCEL_AIR == Fixed(13, 10)
FRICTION == Fixed(2, 10)
JUMP_IMPULSE == Fixed(2, 10)
PLAYER_WIDTH == Fixed(6, 10)
PLAYER_HEIGHT == Fixed(18, 10)

Vec(x, y, z) == [x |-> x, y |-> y, z |-> z]

VAdd(a, b) == Vec(a.x + b.x, a.y + b.y, a.z + b.z)

VSub(a, b) == Vec(a.x - b.x, a.y - b.y, a.z - b.z)

\* The product of two fixed-point numbers, rounded towards zero.
Mul(a, b) == IF a * b >= 0 THEN (a * b) \div 1000 ELSE -((-(a * b)) \div 1000)

\* a * n / d on fixed-point numbers, rounded towards zero.
MulDiv(a, n, d) == IF a * n >= 0 THEN (a * n) \div d ELSE -((-(a * n)) \div d)

VScale(a, k) == Vec(Mul(a.x, k), Mul(a.y, k), Mul(a.z, k))

Dot(a, b) == Mul(a.x, b.x) + Mul(a.y, b.y) + Mul(a.z, b.z)

\* The integer square root, by bisection on lo <= r < hi.
RECURSIVE SqrtBetween(_, _, _)
SqrtBetween(n, lo, hi) ==
  IF hi - lo <= 1 THEN lo
  ELSE LET mid == (lo + hi) \div 2
       IN  IF mid * mid <= n THEN SqrtBetween(n, mid, hi) ELSE SqrtBetween(n, lo, mid)

\* Lengths stay below 46340 fixed-point units, so the squares fit the integers.
Sqrt(n) == SqrtBetween(n, 0, Min(n, 46339) + 1)

Length(a) == Sqrt(a.x * a.x + a.y * a.y + a.z * a.z)

\* a.normalize().multiplyScalar(k), for a of non-zero length.
ScaledTo(a, k) ==
  Vec(MulDiv(a.x, k, Length(a)), MulDiv(a.y, k, Length(a)), MulDiv(a.z, k, Length(a)))

\* set(0, 0, -1).applyQuaternion(camera.quaternion) and set(1, 0, 0)...: the
\* camera orientation is an input; the model takes level views, turned by a
\* number of quarter turns to the left.
CameraForward(look) ==
  CASE look = 0 -> Vec(0, 0, -1000)
    [] look = 1 -> Vec(-1000, 0, 0)
    [] look = 2 -> Vec(0, 0, 1000)
    [] look = 3 -> Vec(1000, 0, 0)

CameraRight(look) ==
  CASE look = 0 -> Vec(1000, 0, 0)
    [] look = 1 -> Vec(0, 0, -1000)
    [] look = 2 -> Vec(-1000, 0, 0)
    [] look = 3 -> Vec(0, 0, 1000)

WorldUp == Vec(0, 1000, 0)

Zero == Vec(0, 0, 0)

KeyCodes == {"KeyW", "KeyS", "KeyA", "KeyD", "Space", "ShiftLeft"}

\* The sum of the directions of the held keys among W, S, A, D.
KeySum(p, held) ==
  LET w == IF "KeyW" \in held THEN p.forward ELSE Zero
      s == IF "KeyS" \in held THEN VSub(w, p.forward) ELSE w
      a == IF "KeyA" \in held THEN VSub(s, p.right) ELSE s
  IN  IF "KeyD" \in held THEN VAdd(a, p.right) ELSE a

getWishDirection(p, held) ==
  LET wishDir == [KeySum(p, held) EXCEPT !.y = 0]
  IN  IF Length(wishDir) > 0 THEN ScaledTo(wishDir, 1000) ELSE wishDir

\* An acceleration that is not capped by addSpeed.
accelerateUncapped(velocity, wishDir, wishSpeed, accel) ==
  IF wishSpeed - Dot(velocity, wishDir) <= 0 THEN velocity
  ELSE VAdd(velocity, VScale(wishDir, Mul(accel, wishSpeed)))

accelerate(velocity, wishDir, wishSpeed, accel) ==
  LET currentSpeed == Dot(velocity, wishDir)
      addSpeed == wishSpeed - currentSpeed
      accelSpeed == Min(Mul(accel, wishSpeed), addSpeed)
  IN  IF addSpeed <= 0 THEN velocity
      ELSE VAdd(velocity, VScale(wishDir, accelSpeed))

applyFriction(velocity) ==
  LET speed == Length(velocity)
      control == IF speed < FRICTION THEN FRICTION ELSE speed
      drop == Mul(control, FRICTION)
      newSpeed == Max(0, speed - drop)
  IN  IF speed < 1 THEN [velocity EXCEPT !.x = 0, !.z = 0]
      ELSE IF newSpeed # speed
        THEN [velocity EXCEPT !.x = MulDiv(velocity.x, newSpeed, speed),
                              !.z = MulDiv(velocity.z, newSpeed, speed)]
      ELSE velocity

\* A flight on which gravity acts.
FlyWithGravity(p, held) ==
  [p EXCEPT !.velocity = VSub(p.velocity, Vec(0, GRAVITY, 0)),
            !.position = VAdd(p.position, VSub(p.velocity, Vec(0, GRAVITY, 0)))]

\* The flying branch of updatePlayer.
Fly(p, held) ==
  LET h == KeySum(p, held)
      u == IF "Space" \in held THEN VAdd(h, WorldUp) ELSE h
      movement == IF "ShiftLeft" \in held THEN VSub(u, WorldUp) ELSE u
      velocity == IF Length(movement) > 0 THEN ScaledTo(movement, Fixed(3, 10))
                  ELSE movement
  IN  [p EXCEPT !.velocity = velocity, !.position = VAdd(p.position, velocity)]

\* A probe of the column under the centre of the box only.
FloorHitCentre(chs, position, newY) ==
  getBlock(chs, Floor(position.x), Floor(newY), Floor(position.z)) # BLOCKS.air

\* The Y pass: is there a block under the box at its new height?
FloorHit(chs, position, newY) ==
  LET feetY == Floor(newY + PLAYER_HEIGHT \div 2 - PLAYER_HEIGHT \div 2)
  IN  \E x \in Floor(position.x - PLAYER_WIDTH \div 2) ..
               Floor(position.x + PLAYER_WIDTH \div 2) :
        \E z \in Floor(position.z - PLAYER_WIDTH \div 2) ..
                 Floor(position.z + PLAYER_WIDTH \div 2) :
          getBlock(chs, x, feetY, z) # BLOCKS.air

\* A probe of the cell at the feet only.
WallHitFeet(chs, checkX, checkZ, y) ==
  getBlock(chs, checkX, Floor(y), checkZ) # BLOCKS.air

\* The X and Z passes: is a probed cell of the leading column solid?
WallHit(chs, checkX, checkZ, y) ==
  \E yy \in Floor(y) .. Floor(y + PLAYER_HEIGHT) :
    getBlock(chs, checkX, yy, checkZ) # BLOCKS.air

\* player.forward and player.right, set from the camera.
Turned(p, look) ==
  [p EXCEPT !.forward = CameraForward(look), !.right = CameraRight(look)]

\* A jump that does not ask for player.onGround.
SteeredAirJump(q, wishDir, held) ==
  [q EXCEPT !.velocity =
     [(IF q.onGround
         THEN accelerate(applyFriction(q.velocity), wishDir,
                         MAX_SPEED_GROUND, ACCEL_GROUND)
         ELSE accelerate(q.velocity, wishDir, MAX_SPEED_AIR, ACCEL_AIR))
      EXCEPT !.y = (IF "Space" \in held THEN JUMP_IMPULSE ELSE q.velocity.y)
                     - GRAVITY]]

\* Friction, acceleration towards wishDir, the jump and gravity.
Steered(q, wishDir, held) ==
  LET v == IF q.onGround
             THEN accelerate(applyFriction(q.velocity), wishDir,
                             MAX_SPEED_GROUND, ACCEL_GROUND)
             ELSE accelerate(q.velocity, wishDir, MAX_SPEED_AIR, ACCEL_AIR)
      vy == IF q.onGround /\ "Space" \in held THEN JUMP_IMPULSE ELSE v.y
  IN  [q EXCEPT !.velocity = [v EXCEPT !.y = vy - GRAVITY]]

\* A Y pass that keeps player.onGround when nothing is hit.
PassYSticky(q, chs, newPosition) ==
  IF q.velocity.y <= 0 /\ FloorHit(chs, q.position, newPosition.y)
    THEN [q EXCEPT !.onGround = TRUE, !.velocity.y = 0,
                   !.position.y = Fixed(Floor(newPosition.y) + 1, 1)]
    ELSE [q EXCEPT !.position.y = newPosition.y]

\* A Y pass that rests the player at the height of the block hit.
PassYAtFeet(q, chs, newPosition) ==
  LET landed == q.velocity.y <= 0 /\ FloorHit(chs, q.position, newPosition.y)
  IN  [q EXCEPT !.onGround = landed,
                !.velocity.y = IF landed THEN 0 ELSE q.velocity.y,
                !.position.y = IF landed THEN Fixed(Floor(newPosition.y), 1)
                               ELSE newPosition.y]

\* Check Y-axis collision; player.position.y = newPosition.y
PassY(q, chs, newPosition) ==
  LET landed == q.velocity.y <= 0 /\ FloorHit(chs, q.position, newPosition.y)
  IN  [q EXCEPT !.onGround = landed,
                !.velocity.y = IF landed THEN 0 ELSE q.velocity.y,
                !.position.y = IF landed THEN Fixed(Floor(newPosition.y) + 1, 1)
                               ELSE newPosition.y]

\* Check X-axis collision; player.position.x = newPosition.x
PassX(q, chs, newPosition) ==
  LET edgeX == IF q.velocity.x > 0 THEN newPosition.x + PLAYER_WIDTH \div 2
                                  ELSE newPosition.x - PLAYER_WIDTH \div 2
      blocked == /\ q.velocity.x # 0
                 /\ WallHit(chs, Floor(edgeX), Floor(q.position.z), q.position.y)
  IN  [q EXCEPT !.velocity.x = IF blocked THEN 0 ELSE q.velocity.x,
                !.position.x = IF blocked THEN q.position.x ELSE newPosition.x]

\* Check Z-axis collision; player.position.z = newPosition.z
PassZ(q, chs, newPosition) ==
  LET edgeZ == IF q.velocity.z > 0 THEN newPosition.z + PLAYER_WIDTH \div 2
                                  ELSE newPosition.z - PLAYER_WIDTH \div 2
      blocked == /\ q.velocity.z # 0
                 /\ WallHit(chs, Floor(q.position.x), Floor(edgeZ), q.position.y)
  IN  [q EXCEPT !.velocity.z = IF blocked THEN 0 ELSE q.velocity.z,
                !.position.z = IF blocked THEN q.position.z ELSE newPosition.z]

\* The X pass ahead of the Y pass.
CollideXFirst(q, chs, newPosition) ==
  PassZ(PassY(PassX(q, chs, newPosition), chs, newPosition), chs, newPosition)

\* The three passes, on the position the velocity leads to.
Collide(q, chs, newPosition) ==
  PassZ(PassX(PassY(q, chs, newPosition), chs, newPosition), chs, newPosition)

Moved(q, chs) == Collide(q, chs, VAdd(q.position, q.velocity))

SteeredBy(q, held) == Steered(q, getWishDirection(q, held), held)

\* The walking branch of updatePlayer.
Walk(p, held, look, chs) == Moved(SteeredBy(Turned(p, look), held), chs)

updatePlayer(p, flying, held, look, chs) ==
  IF flying THEN Fly(p, held) ELSE Walk(p, held, look, chs)

-----------------------------------------------------------------------------
(* getVoxelIntersection (world.js).  The ray starts at the camera, which   *)
(* updatePlayer keeps at eye level above player.position; its direction is *)
(* a vector of length 1000.  A hit is <<>> (null) or <<h>> with h.position *)
(* and h.normal in blocks.                                                 *)

\* for (let t = 0; t < 10; t += 0.1): the sum of 100 times 0.1 in doubles is
\* 9.99999999999998, so the loop body runs for 101 values of t.
RaySamples == 101

\* The k-th value of t.
RayTime(k) == k * Fixed(1, 10)

\* raycaster.ray.at(t)
RayAt(origin, direction, t) == VAdd(origin, VScale(direction, t))

\* point.clone().floor()
FloorVec(v) == Vec(Floor(v.x), Floor(v.y), Floor(v.z))

\* point.sub(prevPoint).multiplyScalar(10)
RayDiff(origin, direction, t) ==
  Vec(10 * (RayAt(origin, direction, t).x - RayAt(origin, direction, t - Fixed(1, 10)).x),
      10 * (RayAt(origin, direction, t).y - RayAt(origin, direction, t - Fixed(1, 10)).y),
      10 * (RayAt(origin, direction, t).z - RayAt(origin, direction, t - Fixed(1, 10)).z))

\* A normal that prefers x, then y, in a tie.
HeuristicNormalXFirst(diff) ==
  IF Abs(diff.x) >= Abs(diff.y) /\ Abs(diff.x) >= Abs(diff.z)
    THEN Vec(IF diff.x > 0 THEN -1 ELSE 1, 0, 0)
  ELSE IF Abs(diff.y) >= Abs(diff.z)
    THEN Vec(0, IF diff.y > 0 THEN -1 ELSE 1, 0)
  ELSE Vec(0, 0, IF diff.z > 0 THEN -1 ELSE 1)

\* The chain of comparisons that chooses the normal.
HeuristicNormal(diff) ==
  IF Abs(diff.x) > Abs(diff.y) /\ Abs(diff.x) > Abs(diff.z)
    THEN Vec(IF diff.x > 0 THEN -1 ELSE 1, 0, 0)
  ELSE IF Abs(diff.y) > Abs(diff.z)
    THEN Vec(0, IF diff.y > 0 THEN -1 ELSE 1, 0)
  ELSE Vec(0, 0, IF diff.z > 0 THEN -1 ELSE 1)

\* The body of the loop for the k-th value of t: the hit returned, or <<>>
\* to go on.
RaySample(chs, origin, direction, k) ==
  IF getBlock(chs, Floor(RayAt(origin, direction, RayTime(k)).x),
              Floor(RayAt(origin, direction, RayTime(k)).y),
              Floor(RayAt(origin, direction, RayTime(k)).z)) # BLOCKS.air
    THEN <<[position |-> FloorVec(RayAt(origin, direction, RayTime(k))),
            normal |-> HeuristicNormal(RayDiff(origin, direction, RayTime(k)))]>>
  ELSE <<>>

\* The loop over the values of t from the lo-th to the one before the hi-th,
\* in two halves: the second half runs if the first returned nothing.
RECURSIVE RayMarch(_, _, _, _, _)
RayMarch(chs, origin, direction, lo, hi) ==
  IF hi <= lo THEN <<>>
  ELSE IF hi = lo + 1 THEN RaySample(chs, origin, direction, lo)
  ELSE LET first == RayMarch(chs, origin, direction, lo, (lo + hi) \div 2)
       IN  IF first # <<>> THEN first
           ELSE RayMarch(chs, origin, direction, (lo + hi) \div 2, hi)

\* A march that starts half a block from the camera.
getVoxelIntersectionFromHalf(chs, origin, direction) ==
  RayMarch(chs, origin, direction, 5, RaySamples)

getVoxelIntersection(chs, origin, direction) ==
  RayMarch(chs, origin, direction, 0, RaySamples)

\* camera.position.copy(player.position); camera.position.y += height * 0.9
CameraPosition(p) == VAdd(p.position, Vec(0, Mul(PLAYER_HEIGHT, Fixed(9, 10)), 0))

-----------------------------------------------------------------------------
(* The state machine.  The handlers of input.js run between frames: which  *)
(* keys are held at a frame and where the camera looks are inputs of the   *)
(* frame.                                                                  *)

MaxSeed == 1

\* Math.random() is in one of the states 0 .. MaxRandomStart at page load.
MaxRandomStart == 1

MaxEdits == 1

\* A mesh is followed up to MaxDisposed disposals.
MaxDisposed == 2

\* The player stays within Reach blocks of the origin along z.
Reach == (RENDER_DISTANCE + 3) * CHUNK_SIZE

\* The keys tried at a frame: none while walking; flying, the player flies
\* out along -z (KeyW) and turns back (KeyS) once.
HeldSets(p, flying) ==
  IF ~flying THEN {{}}
  ELSE IF p.velocity.z > 0 THEN {{"KeyS"}}
  ELSE {{"KeyW"}, {"KeyS"}}

\* The camera orientations tried at a frame.
Looks == {0}

\* The arguments tried for setBlock and getBlock: both sides of the chunk
\* borders at the origin, y below, inside and above the world, and a column
\* of a chunk that streaming around the player never stores.
EditCells ==
  {<<0, 0, 0>>, <<-1, 0, -1>>, <<1, WORLD_HEIGHT - 1, 1>>,
   <<-1, WORLD_HEIGHT, 0>>,
   <<-RENDER_DISTANCE * CHUNK_SIZE - 1, 0, -1>>,
   <<-RENDER_DISTANCE * CHUNK_SIZE - 1, -1, -1>>}

\* The bottom layer of the chunk at the origin.
DigCells == {<<x, 0, z>> : x \in 0 .. CHUNK_SIZE - 1, z \in 0 .. CHUNK_SIZE - 1}

EditTypes == {BLOCKS.air, BLOCKS.bricks}

Store == [chunks |-> chunks, rng |-> rng, created |-> created,
          released |-> released, made |-> <<>>]

Init ==
  /\ seed \in 0 .. MaxSeed
  /\ rng \in 0 .. MaxRandomStart
  /\ chunks = [k \in {} |-> 0]
  /\ player = [position |-> Vec(0, Fixed(WORLD_HEIGHT, 2), 0), velocity |-> Zero,
               onGround |-> FALSE, forward |-> Zero, right |-> Zero]
  /\ isFlying = FALSE
  /\ mouseLocked = FALSE
  /\ gameIsRunning = FALSE
  /\ loader = [pc |-> "menu", row |-> 0, chunkX |-> 0, chunkZ |-> 0]
  /\ released = {}
  /\ created = [k \in {} |-> 0]
  /\ lastOp = [op |-> "init"]
  /\ edits = 0

\* The store w becomes the state.
Stored(w) ==
  /\ chunks' = w.chunks
  /\ rng' = w.rng
  /\ created' = w.created
  /\ released' = w.released

\* The click on the start button: startGame runs up to the first row of
\* generateInitialWorld, which reads the player's chunk once.
StartGame ==
  /\ loader.pc = "menu"
  /\ loader' = [pc |-> "rows", row |-> 0,
                chunkX |-> PlayerChunk(player.position.x),
                chunkZ |-> PlayerChunk(player.position.z)]
  /\ lastOp' = [op |-> "startGame"]
  /\ UNCHANGED <<seed, rng, chunks, player, isFlying, mouseLocked, gameIsRunning,
                 released, created, edits>>

RowGenerated(w) ==
  /\ Stored(w)
  /\ lastOp' = [op |-> "generateRow", row |-> loader.row, made |-> w.made]

\* One row of generateInitialWorld, up to its await.
GenerateInitialRow ==
  /\ loader.pc = "rows"
  /\ loader.row < Side
  /\ RowGenerated(GenerateRow(Store, loader.chunkX - RENDER_DISTANCE + loader.row, 0,
                              loader.chunkX, loader.chunkZ))
  /\ loader' = [loader EXCEPT !.row = loader.row + 1]
  /\ UNCHANGED <<seed, player, isFlying, mouseLocked, gameIsRunning, edits>>

\* generateInitialWorld resolves; startGame asks for the pointer lock and
\* sets gameIsRunning.
FinishStart ==
  /\ loader.pc = "rows"
  /\ loader.row = Side
  /\ loader' = [loader EXCEPT !.pc = "done"]
  /\ gameIsRunning' = TRUE
  /\ lastOp' = [op |-> "finishStart"]
  /\ UNCHANGED <<seed, rng, chunks, player, isFlying, mouseLocked, released,
                 created, edits>>

\* pointerlockchange: the lock is granted after a request (startGame, or a
\* click while the game runs) or lost (Escape).
PointerLockChange ==
  /\ mouseLocked \/ gameIsRunning
  /\ mouseLocked' = ~mouseLocked
  /\ lastOp' = [op |-> "pointerlockchange"]
  /\ UNCHANGED <<seed, rng, chunks, player, isFlying, gameIsRunning, loader,
                 released, created, edits>>

\* keydown of KeyF.
ToggleFly ==
  /\ isFlying' = ~isFlying
  /\ lastOp' = [op |-> "keyF"]
  /\ UNCHANGED <<seed, rng, chunks, player, mouseLocked, gameIsRunning, loader,
                 released, created, edits>>

\* updateWorld() in animate, with its result w.
WorldUpdated(w, look) ==
  /\ Stored(w)
  /\ lastOp' = [op |-> "updateWorld", look |-> look, made |-> w.made,
                renderedChunks |-> w.renderedChunks, totalBlocks |-> w.totalBlocks]

\* updatePlayer(isFlying) in animate, with its result p, then updateWorld().
PlayerUpdated(p, look) ==
  /\ player' = p
  /\ WorldUpdated(updateWorld(Store, p.position, look), look)

\* A frame that ticks while the world is still being generated.
AnimateWhileLoading(held, look) ==
  /\ PlayerUpdated(updatePlayer(player, isFlying, held, look, chunks), look)
  /\ UNCHANGED <<seed, isFlying, mouseLocked, gameIsRunning, loader, edits>>

\* A frame of animate with the game running.
Animate(held, look) ==
  /\ gameIsRunning /\ mouseLocked
  /\ PlayerUpdated(updatePlayer(player, isFlying, held, look, chunks), look)
  /\ UNCHANGED <<seed, isFlying, mouseLocked, gameIsRunning, loader, edits>>

BlockSet(w, x, y, z, blockType) ==
  /\ Stored(w)
  /\ lastOp' = [op |-> "setBlock", x |-> x, y |-> y, z |-> z,
                blockType |-> blockType, made |-> w.made]

\* setBlock, called from the mousedown handler (breakBlock, placeBlock).
SetBlock(x, y, z, blockType) ==
  /\ mouseLocked
  /\ BlockSet(setBlock(Store, x, y, z, blockType), x, y, z, blockType)
  /\ UNCHANGED <<seed, player, isFlying, mouseLocked, gameIsRunning, loader>>

\* getBlock, as called by updatePlayer and getVoxelIntersection.
GetBlock(x, y, z) ==
  /\ lastOp' = [op |-> "getBlock", x |-> x, y |-> y, z |-> z,
                result |-> getBlock(chunks, x, y, z)]
  /\ UNCHANGED <<seed, rng, chunks, player, isFlying, mouseLocked, gameIsRunning,
                 loader, released, created, edits>>

\* No stored mesh was disposed MaxDisposed times.
FewDisposals ==
  \A key \in DOMAIN chunks :
    HasMesh(chunks[key]) => chunks[key].mesh[1].disposed < MaxDisposed

\* Bounded exploration: blocks are edited before the player takes off, who
\* then flies along z within Reach.
Frame ==
  \E held \in HeldSets(player, isFlying), look \in Looks :
    /\ FewDisposals
    /\ Animate(held, look)
    /\ player'.position.z >= Fixed(-Reach, 1)
    /\ player'.position.z <= 0

Edit ==
  \E c \in EditCells, t \in EditTypes :
    /\ ~isFlying
    /\ edits < MaxEdits
    /\ edits' = edits + 1
    /\ SetBlock(c[1], c[2], c[3], t)

Probe ==
  \E c \in EditCells : lastOp.op = "setBlock" /\ GetBlock(c[1], c[2], c[3])

TakeOff == ~isFlying /\ player.onGround /\ ToggleFly

Next ==
  \/ StartGame
  \/ GenerateInitialRow
  \/ FinishStart
  \/ PointerLockChange
  \/ TakeOff
  \/ Frame
  \/ Edit
  \/ Probe

Spec == Init /\ [][Next]_vars

\* The player stays on the ground and breaks blocks of the bottom layer of
\* the chunk at the origin.
Dig ==
  \E c \in DigCells :
    /\ ~isFlying
    /\ FewDisposals
    /\ edits' = edits
    /\ SetBlock(c[1], c[2], c[3], BLOCKS.air)

Stand == ~isFlying /\ Frame

NextDig ==
  \/ StartGame
  \/ GenerateInitialRow
  \/ FinishStart
  \/ PointerLockChange
  \/ Stand
  \/ Dig

SpecDig == Init /\ [][NextDig]_vars

\* A frame of animate without the game running or without the pointer lock:
\* neither updatePlayer nor updateWorld is called.
IdleFrame ==
  /\ ~(gameIsRunning /\ mouseLocked)
  /\ lastOp' = [op |-> "animate"]
  /\ UNCHANGED <<seed, rng, chunks, player, isFlying, mouseLocked, gameIsRunning,
                 loader, released, created, edits>>

\* The start of the game, with the frames of animate that run from the load
\* of the page on.
NextStart ==
  \/ StartGame
  \/ GenerateInitialRow
  \/ FinishStart
  \/ PointerLockChange
  \/ IdleFrame
  \/ TakeOff
  \/ Frame

SpecStart == Init /\ [][NextStart]_vars

-----------------------------------------------------------------------------
(* greedyMeshChunk on its own: the store holds one chunk, whose grid is    *)
(* drawn from MeshGrids, and the mesher is applied to it.                  *)

MeshTypes == {BLOCKS.air, BLOCKS.stone, BLOCKS.grass}

\* The cells of the two bottom layers.
LowCells == 0 .. 2 * CHUNK_SIZE * CHUNK_SIZE - 1

\* The grid with the blocks low in the two bottom layers and the block top
\* in every cell above them.
MeshGrid(low, top) ==
  [i \in 0 .. CellCount - 1 |-> IF i \in LowCells THEN low[i] ELSE top]

InitMesh ==
  /\ seed = 0
  /\ rng = 0
  /\ \E low \in [LowCells -> MeshTypes], top \in MeshTypes :
       chunks = [key \in {ChunkKey(0, 0)} |->
                   [x |-> 0, z |-> 0, blocks |-> MeshGrid(low, top),
                    mesh |-> <<>>, needsUpdate |-> TRUE]]
  /\ player = [position |-> Vec(0, Fixed(WORLD_HEIGHT, 2), 0), velocity |-> Zero,
               onGround |-> FALSE, forward |-> Zero, right |-> Zero]
  /\ isFlying = FALSE
  /\ mouseLocked = FALSE
  /\ gameIsRunning = FALSE
  /\ loader = [pc |-> "done", row |-> 0, chunkX |-> 0, chunkZ |-> 0]
  /\ released = {}
  /\ created = [key \in {ChunkKey(0, 0)} |-> 1]
  /\ lastOp = [op |-> "init"]
  /\ edits = 0

\* const faces = greedyMeshChunk(chunk), as called by createChunkMesh.
MeshChunk ==
  \E key \in DOMAIN chunks :
    /\ lastOp.op = "init"
    /\ lastOp' = [op |-> "greedyMeshChunk", key |-> key,
                  faces |-> greedyMeshChunk(chunks[key].blocks)]
    /\ UNCHANGED <<seed, rng, chunks, player, isFlying, mouseLocked, gameIsRunning,
                   loader, released, created, edits>>

NextMesh == MeshChunk

SpecMesh == InitMesh /\ [][NextMesh]_vars

\* Grids with blocks placed freely, floating ones included, in the three
\* bottom layers of the slice x = 0 and air everywhere else.
SliceCells == {CellIndex(0, y, z) : y \in 0 .. 2, z \in 0 .. CHUNK_SIZE - 1}

SliceGrid(low) ==
  [i \in 0 .. CellCount - 1 |-> IF i \in SliceCells THEN low[i] ELSE BLOCKS.air]

InitQuads ==
  /\ seed = 0
  /\ rng = 0
  /\ \E low \in [SliceCells -> MeshTypes] :
       chunks = [key \in {ChunkKey(0, 0)} |->
                   [x |-> 0, z |-> 0, blocks |-> SliceGrid(low),
                    mesh |-> <<>>, needsUpdate |-> TRUE]]
  /\ player = [position |-> Vec(0, Fixed(WORLD_HEIGHT, 2), 0), velocity |-> Zero,
               onGround |-> FALSE, forward |-> Zero, right |-> Zero]
  /\ isFlying = FALSE
  /\ mouseLocked = FALSE
  /\ gameIsRunning = FALSE
  /\ loader = [pc |-> "done", row |-> 0, chunkX |-> 0, chunkZ |-> 0]
  /\ released = {}
  /\ created = [key \in {ChunkKey(0, 0)} |-> 1]
  /\ lastOp = [op |-> "init"]
  /\ edits = 0

NextQuads == MeshChunk

SpecQuads == InitQuads /\ [][NextQuads]_vars

-----------------------------------------------------------------------------
(* updatePlayer on its own: one call, on a player and a world drawn from   *)
(* small sets.  The world is four chunks around the origin: a floor of     *)
(* stone with a hole, a wall of bricks two blocks high and a block of      *)
(* bricks at head height.                                                  *)

WalkBlock(x, y, z) ==
  IF y = 0 THEN (IF x = -1 /\ z = 0 THEN BLOCKS.air ELSE BLOCKS.stone)
  ELSE IF x = 1 /\ z = 0 /\ y \in {1, 2} THEN BLOCKS.bricks
  ELSE IF x = 0 /\ z = -1 /\ y = 2 THEN BLOCKS.bricks
  ELSE BLOCKS.air

WalkGrid(chunkX, chunkZ) ==
  [i \in 0 .. CellCount - 1 |->
     WalkBlock(chunkX * CHUNK_SIZE + (i % CHUNK_SIZE),
               i \div (CHUNK_SIZE * CHUNK_SIZE),
               chunkZ * CHUNK_SIZE + ((i \div CHUNK_SIZE) % CHUNK_SIZE))]

WalkWorld ==
  [key \in {ChunkKey(cx, cz) : cx \in {-1, 0}, cz \in {-1, 0}} |->
     [x |-> key[1], z |-> key[2], blocks |-> WalkGrid(key[1], key[2]),
      mesh |-> <<>>, needsUpdate |-> TRUE]]

\* Over the hole, astride the hole and the floor, on the floor next to the
\* wall, inside the wall; standing, just above the floor, in the air, with
\* the feet just above the top of the wall; and, where flying leads, with
\* the feet right under the block at head height.
WalkPositions ==
  {Vec(x, y, z) : x \in {-500, -200, 500, 1500}, y \in {1000, 1005, 2500, 3005},
                  z \in {200, 500}}
    \cup {Vec(500, 1900, -500)}

WalkVelocities ==
  {Vec(x, y, z) : x \in {0, 300, -60}, y \in {0, -500, 190}, z \in {0, -60}}

WalkHeld ==
  {{}, {"KeyW"}, {"KeyS"}, {"KeyD"}, {"KeyA"}, {"KeyW", "KeyD"}, {"KeyW", "KeyS"},
   {"Space"}, {"KeyW", "Space"}, {"ShiftLeft"}}

WalkLooks == {0, 3}

\* The state with the game running, the world w stored and the player p.
Running(w, p) ==
  /\ seed = 0
  /\ rng = 0
  /\ chunks = w
  /\ player = p
  /\ mouseLocked = TRUE
  /\ gameIsRunning = TRUE
  /\ loader = [pc |-> "done", row |-> 0, chunkX |-> 0, chunkZ |-> 0]
  /\ released = {}
  /\ created = [key \in DOMAIN w |-> 1]
  /\ lastOp = [op |-> "init"]
  /\ edits = 0

InitWalk ==
  /\ isFlying \in BOOLEAN
  /\ \E position \in WalkPositions, velocity \in WalkVelocities, onGround \in BOOLEAN :
       Running(WalkWorld,
               [position |-> position, velocity |-> velocity, onGround |-> onGround,
                forward |-> CameraForward(0), right |-> CameraRight(0)])

\* updatePlayer(isFlying), as called by animate.
UpdatePlayer ==
  \E held \in WalkHeld, look \in WalkLooks :
    /\ lastOp.op = "init"
    /\ player' = updatePlayer(player, isFlying, held, look, chunks)
    /\ lastOp' = [op |-> "updatePlayer", flying |-> isFlying, held |-> held,
                  look |-> look, before |-> player]
    /\ UNCHANGED <<seed, rng, chunks, isFlying, mouseLocked, gameIsRunning, loader,
                   released, created, edits>>

NextWalk == UpdatePlayer

SpecWalk == InitWalk /\ [][NextWalk]_vars

-----------------------------------------------------------------------------
(* getVoxelIntersection on its own: one call, from the camera of a player  *)
(* standing in the world above, along a direction drawn from a small set.  *)

\* Directions along an axis, directions with one largest coordinate, and
\* directions whose two or three largest coordinates are equal.
RayDirections ==
  {Vec(0, -1000, 0), Vec(1000, 0, 0), Vec(0, 0, -1000), Vec(0, 1000, 0),
   Vec(-1000, 0, 0),
   Vec(600, -800, 0), Vec(800, -600, 0), Vec(0, -600, -800), Vec(0, -800, 600),
   Vec(-600, 0, 800),
   Vec(707, -707, 0), Vec(-707, -707, 0), Vec(707, 0, -707), Vec(0, -707, -707),
   Vec(577, -577, -577), Vec(-577, -577, 577)}

InitRay ==
  /\ isFlying = FALSE
  /\ \E position \in WalkPositions :
       Running(WalkWorld,
               [position |-> position, velocity |-> Zero, onGround |-> FALSE,
                forward |-> CameraForward(0), right |-> CameraRight(0)])

\* getVoxelIntersection(raycaster), as called by the mousedown handler.
CastRay ==
  \E direction \in RayDirections :
    /\ lastOp.op = "init"
    /\ lastOp' = [op |-> "getVoxelIntersection", origin |-> CameraPosition(player),
                  direction |-> direction,
                  hit |-> getVoxelIntersection(chunks, CameraPosition(player),
                                               direction)]
    /\ UNCHANGED <<seed, rng, chunks, player, isFlying, mouseLocked, gameIsRunning,
                   loader, released, created, edits>>

NextRay == CastRay

SpecRay == InitRay /\ [][NextRay]_vars

-----------------------------------------------------------------------------
(* Properties.  lastOp names the operation of the last step with its       *)
(* arguments, so a step of setBlock is one with lastOp'.op = "setBlock".   *)

\* The key of the chunk owning the column (x, z).
OwnerKey(x, z) == ChunkKey(ChunkCoord(x), ChunkCoord(z))

InWorld(y) == y >= 0 /\ y < WORLD_HEIGHT

\* The keys of the chunks created by the operation o.
MadeBy(o) ==
  IF o.op \in {"setBlock", "updateWorld", "generateRow"}
    THEN {o.made[i] : i \in DOMAIN o.made} ELSE {}

\* C1: for integer (x, y, z), negative x and z included, and every block type
\* T, if 0 <= y < WORLD_HEIGHT then getBlock(x, y, z) right after
\* setBlock(x, y, z, T) returns T, whether or not the owning chunk was stored.
C1_RoundTrip ==
  lastOp.op = "setBlock" /\ InWorld(lastOp.y)
    => getBlock(chunks, lastOp.x, lastOp.y, lastOp.z) = lastOp.blockType

\* A brick was set at negative x and z in a chunk that setBlock had to create.
C1_Witness ==
  /\ lastOp.op = "setBlock" /\ InWorld(lastOp.y)
  /\ lastOp.x < 0 /\ lastOp.z < 0
  /\ lastOp.blockType = BLOCKS.bricks
  /\ lastOp.made = <<OwnerKey(lastOp.x, lastOp.z)>>

\* C2: setBlock with y < 0 or y >= WORLD_HEIGHT leaves the whole chunk store
\* as it is (no chunk generated, no block written, no needsUpdate changed),
\* and getBlock at such a y returns air for every x, z and store.
C2_OutOfRangeNoOp ==
  [][/\ lastOp'.op = "setBlock" /\ ~InWorld(lastOp'.y)
          => chunks' = chunks /\ rng' = rng /\ created' = created
     /\ \A c \in EditCells \cup DigCells :
          \A y \in {-2, -1, WORLD_HEIGHT, WORLD_HEIGHT + 1} :
            /\ getBlock(chunks, c[1], y, c[3]) = BLOCKS.air
            /\ getBlock(chunks', c[1], y, c[3]) = BLOCKS.air]_vars

\* setBlock was called below the world on a column whose chunk is not stored.
C2_Witness ==
  /\ lastOp.op = "setBlock" /\ lastOp.y < 0
  /\ lastOp.blockType = BLOCKS.bricks
  /\ OwnerKey(lastOp.x, lastOp.z) \notin DOMAIN chunks
  /\ loader.pc = "done"

\* C3: getBlock returns air when the chunk owning (x, z) is not stored and
\* never changes the chunk store; setBlock on a column whose chunk is not
\* stored generates that chunk, then writes into it.
C3_MissingChunk ==
  [][/\ \A c \in EditCells \cup DigCells :
          OwnerKey(c[1], c[3]) \notin DOMAIN chunks'
            => getBlock(chunks', c[1], c[2], c[3]) = BLOCKS.air
     /\ lastOp'.op = "getBlock"
          => /\ chunks' = chunks /\ rng' = rng /\ created' = created
             /\ lastOp'.result = getBlock(chunks, lastOp'.x, lastOp'.y, lastOp'.z)
     /\ lastOp'.op = "setBlock" /\ InWorld(lastOp'.y)
          /\ OwnerKey(lastOp'.x, lastOp'.z) \notin DOMAIN chunks
          => /\ lastOp'.made = <<OwnerKey(lastOp'.x, lastOp'.z)>>
             /\ DOMAIN chunks' = DOMAIN chunks \cup {OwnerKey(lastOp'.x, lastOp'.z)}
             /\ chunks'[OwnerKey(lastOp'.x, lastOp'.z)].blocks =
                  [FillChunk(EmptyGrid(rng), ChunkCoord(lastOp'.x),
                             ChunkCoord(lastOp'.z), 0).b
                     EXCEPT ![CellIndex(LocalCoord(lastOp'.x), lastOp'.y,
                                        LocalCoord(lastOp'.z))] =
                              lastOp'.blockType]]_vars

\* getBlock was called inside the world on a column whose chunk is not stored.
C3_Witness ==
  /\ lastOp.op = "getBlock" /\ InWorld(lastOp.y)
  /\ OwnerKey(lastOp.x, lastOp.z) \notin DOMAIN chunks
  /\ lastOp.result = BLOCKS.air
  /\ loader.pc = "done"

\* C4: after setBlock(x, y, z, T) with y in range the owning chunk has
\* needsUpdate set, so has the stored chunk across each border of the chunk
\* that the written cell lies on (local coordinate 0 or CHUNK_SIZE - 1), and
\* no other chunk's needsUpdate changes.
C4_DirtyMarks ==
  [][lastOp'.op = "setBlock" /\ InWorld(lastOp'.y)
       => LET cx == ChunkCoord(lastOp'.x)
              cz == ChunkCoord(lastOp'.z)
              lx == LocalCoord(lastOp'.x)
              lz == LocalCoord(lastOp'.z)
              marked ==
                {ChunkKey(cx, cz)}
                  \cup (IF lx = 0 THEN {ChunkKey(cx - 1, cz)} ELSE {})
                  \cup (IF lx = CHUNK_SIZE - 1 THEN {ChunkKey(cx + 1, cz)} ELSE {})
                  \cup (IF lz = 0 THEN {ChunkKey(cx, cz - 1)} ELSE {})
                  \cup (IF lz = CHUNK_SIZE - 1 THEN {ChunkKey(cx, cz + 1)} ELSE {})
          IN  /\ ChunkKey(cx, cz) \in DOMAIN chunks'
              /\ \A key \in DOMAIN chunks' :
                   IF key \in marked THEN chunks'[key].needsUpdate
                   ELSE /\ key \in DOMAIN chunks
                        /\ chunks'[key].needsUpdate = chunks[key].needsUpdate]_vars

\* A block was set at the corner of the chunk at the origin: the neighbours
\* across the two borders are marked, and a meshed neighbour across another
\* border is not.
C4_Witness ==
  /\ lastOp.op = "setBlock"
  /\ <<lastOp.x, lastOp.y, lastOp.z>> = <<0, 0, 0>>
  /\ {ChunkKey(-1, 0), ChunkKey(0, -1), ChunkKey(1, 0)} \subseteq DOMAIN chunks
  /\ chunks[ChunkKey(-1, 0)].needsUpdate /\ HasMesh(chunks[ChunkKey(-1, 0)])
  /\ chunks[ChunkKey(0, -1)].needsUpdate /\ HasMesh(chunks[ChunkKey(0, -1)])
  /\ ~chunks[ChunkKey(1, 0)].needsUpdate

\* C5: when updateWorld returns, a chunk is stored for every chunk
\* coordinate within RENDER_DISTANCE (Chebyshev) of the player's chunk.
C5_Generated ==
  lastOp.op = "updateWorld"
    => \A dx \in -RENDER_DISTANCE .. RENDER_DISTANCE :
         \A dz \in -RENDER_DISTANCE .. RENDER_DISTANCE :
           ChunkKey(PlayerChunk(player.position.x) + dx,
                    PlayerChunk(player.position.z) + dz) \in DOMAIN chunks

\* updateWorld has generated chunks around a player who left the first chunk.
C5_Witness ==
  /\ lastOp.op = "updateWorld"
  /\ lastOp.made # <<>>
  /\ PlayerChunk(player.position.z) < 0

\* C6: updateWorld removes a stored chunk if and only if its Chebyshev
\* distance from the player's chunk exceeds RENDER_DISTANCE + 2: afterwards
\* no stored chunk is farther, and every chunk stored before within that
\* distance is still stored with the same block grid.
C6_Eviction ==
  [][lastOp'.op = "updateWorld"
       => /\ \A key \in DOMAIN chunks' :
               ChunkDistance(chunks'[key], player'.position) <= RENDER_DISTANCE + 2
          /\ \A key \in DOMAIN chunks :
               IF ChunkDistance(chunks[key], player'.position) <= RENDER_DISTANCE + 2
                 THEN /\ key \in DOMAIN chunks'
                      /\ chunks'[key].blocks = chunks[key].blocks
                 ELSE key \notin DOMAIN chunks']_vars

\* updateWorld has returned with a chunk just out of reach gone and an
\* edited chunk kept.
C6_Witness ==
  /\ lastOp.op = "updateWorld"
  /\ PlayerChunk(player.position.z) = -(RENDER_DISTANCE + 2)
  /\ ChunkKey(0, 1) \in DOMAIN created /\ ChunkKey(0, 1) \notin DOMAIN chunks
  /\ ChunkKey(-1, -1) \in DOMAIN chunks
  /\ chunks[ChunkKey(-1, -1)].blocks[CellIndex(CHUNK_SIZE - 1, 0, CHUNK_SIZE - 1)]
       = BLOCKS.bricks

\* C7: over any sequence of player moves, updateWorld calls and setBlock
\* calls a chunk is created at most once per chunk coordinate, also after
\* the player moves away and returns.
C7_CreatedOnce == \A key \in DOMAIN created : created[key] <= 1

\* C7, amended: a chunk is created for a coordinate only while no chunk is
\* stored for it, and an operation creates it once; a coordinate whose chunk
\* updateWorld evicted gets a new chunk when it is requested again.
C7_CreatedWhenMissing ==
  [][/\ \A key \in MadeBy(lastOp') : key \notin DOMAIN chunks
     /\ lastOp'.op \in {"setBlock", "updateWorld", "generateRow"}
          => Cardinality(MadeBy(lastOp')) = Len(lastOp'.made)
     /\ \A key \in DOMAIN created' :
          Count(created', key) # Count(created, key) => key \in MadeBy(lastOp')
     /\ \A key \in DOMAIN chunks' \ DOMAIN chunks : key \in MadeBy(lastOp')]_vars

\* The player has come back and updateWorld has created a chunk a second time.
C7_Witness ==
  /\ lastOp.op = "updateWorld"
  /\ \E key \in MadeBy(lastOp) : created[key] = 2 /\ key \in DOMAIN chunks

\* C8: two generations of the same chunk coordinate with the same noise seed
\* give the same block grid: the grid of a stored chunk that was not edited
\* is the one that a generation gives whatever the state of Math.random().
C8_Deterministic ==
  edits = 0
    => \A key \in DOMAIN chunks : \A r \in 0 .. 9 :
         chunks[key].blocks = FillChunk(EmptyGrid(r), key[1], key[2], 0).b

\* C9: every mesh is removed from the scene and disposed exactly once: a
\* mesh no chunk refers to any more was disposed once, a mesh a chunk refers
\* to was not disposed.
C9_ReleasedOnce ==
  /\ \A m \in released : m.disposed = 1 /\ ~m.inScene
  /\ \A key \in DOMAIN chunks :
       HasMesh(chunks[key])
         => chunks[key].mesh[1].disposed = 0 /\ chunks[key].mesh[1].inScene

\* C10: for every stored chunk with a mesh and needsUpdate false, the mesh is
\* the one greedyMeshChunk builds from the chunk's block grid, not disposed.
C10_MeshCurrent ==
  \A key \in DOMAIN chunks :
    HasMesh(chunks[key]) /\ ~chunks[key].needsUpdate
      => /\ chunks[key].mesh[1].faces = greedyMeshChunk(chunks[key].blocks)
         /\ chunks[key].mesh[1].disposed = 0

\* The block of the cell at slice a of the axis and (i, j) across it, air
\* outside the chunk.
CellAcross(blocks, axis, a, i, j) ==
  getBlockInChunk(blocks, Place(axis, a, i, j)[1], Place(axis, a, i, j)[2],
                  Place(axis, a, i, j)[3])

\* The least and the greatest coordinate of the quad f along the axis.
LowOf(f, axis) ==
  CHOOSE c \in {f.vertices[n][axis + 1] : n \in 1 .. 4} :
    \A n \in 1 .. 4 : c <= f.vertices[n][axis + 1]

HighOf(f, axis) ==
  CHOOSE c \in {f.vertices[n][axis + 1] : n \in 1 .. 4} :
    \A n \in 1 .. 4 : c >= f.vertices[n][axis + 1]

\* The quad f lies in the plane at s of the axis and covers the unit face
\* (i, j) of that plane.
Covers(f, axis, s, i, j) ==
  /\ \A n \in 1 .. 4 : f.vertices[n][axis + 1] = s
  /\ LowOf(f, (axis + 1) % 3) <= i /\ i + 1 <= HighOf(f, (axis + 1) % 3)
  /\ LowOf(f, (axis + 2) % 3) <= j /\ j + 1 <= HighOf(f, (axis + 2) % 3)

UnitNormal(axis, sign) == [k \in 1 .. 3 |-> IF k = axis + 1 THEN sign ELSE 0]

\* The quads of faces match the grid on the unit face (i, j) of the plane at
\* s: one quad if one side only is solid, none otherwise.
UnitFaceMatches(blocks, faces, axis, s, i, j, behind, ahead) ==
  LET cover == {n \in DOMAIN faces : Covers(faces[n], axis, s, i, j)}
  IN  IF (behind # BLOCKS.air) = (ahead # BLOCKS.air) THEN cover = {}
      ELSE /\ Cardinality(cover) = 1
           /\ \A n \in cover :
                /\ faces[n].normal
                     = UnitNormal(axis, IF behind # BLOCKS.air THEN 1 ELSE -1)
                /\ faces[n].blockType
                     = (IF behind # BLOCKS.air THEN behind ELSE ahead)

FacesMatchGrid(blocks, faces) ==
  /\ \A n \in DOMAIN faces : \A k \in 1 .. 4 : \A axis \in 0 .. 2 :
       faces[n].vertices[k][axis + 1] \in 0 .. Dims(axis)
  /\ \A axis \in 0 .. 2 : \A s \in 0 .. Dims(axis) :
       \A i \in 0 .. Dims((axis + 1) % 3) - 1 :
         \A j \in 0 .. Dims((axis + 2) % 3) - 1 :
           UnitFaceMatches(blocks, faces, axis, s, i, j,
                           CellAcross(blocks, axis, s - 1, i, j),
                           CellAcross(blocks, axis, s, i, j))

\* C11: the quads greedyMeshChunk emits cover exactly the unit faces, cells
\* outside the chunk counted as air, across which one side only is solid:
\* each of them once, by a quad whose normal points from the solid cell to
\* the empty one and whose blockType is the solid cell's; no quad covers a
\* face between two air cells or two solid cells, of different types or not.
C11_FacesMatchGrid ==
  lastOp.op = "greedyMeshChunk"
    => FacesMatchGrid(chunks[lastOp.key].blocks, lastOp.faces)

\* A meshed grid with stone next to grass, air above the stone.
C11_Witness ==
  /\ lastOp.op = "greedyMeshChunk"
  /\ chunks[lastOp.key].blocks[CellIndex(0, 0, 0)] = BLOCKS.stone
  /\ chunks[lastOp.key].blocks[CellIndex(1, 0, 0)] = BLOCKS.grass
  /\ chunks[lastOp.key].blocks[CellIndex(0, 1, 0)] = BLOCKS.air
  /\ Len(lastOp.faces) > 6

\* Every cell of the grid holds the solid block t.
Uniform(blocks, t) == t # BLOCKS.air /\ \A i \in DOMAIN blocks : blocks[i] = t

\* The quad f is the whole boundary plane of the chunk at s of the axis, of
\* block t, with the normal sign along the axis.
WholePlane(f, axis, s, sign, t) ==
  /\ \A n \in 1 .. 4 : f.vertices[n][axis + 1] = s
  /\ LowOf(f, (axis + 1) % 3) = 0 /\ HighOf(f, (axis + 1) % 3) = Dims((axis + 1) % 3)
  /\ LowOf(f, (axis + 2) % 3) = 0 /\ HighOf(f, (axis + 2) % 3) = Dims((axis + 2) % 3)
  /\ f.normal = UnitNormal(axis, sign)
  /\ f.blockType = t

\* C12: for a chunk whose every cell holds the same solid block type,
\* greedyMeshChunk returns 6 faces, one per boundary plane of the chunk, each
\* covering the whole plane with the outward normal.
C12_UniformSixFaces ==
  \A t \in MeshTypes :
    (lastOp.op = "greedyMeshChunk" /\ Uniform(chunks[lastOp.key].blocks, t))
      => /\ Len(lastOp.faces) = 6
         /\ \A axis \in 0 .. 2 :
              /\ \E n \in 1 .. 6 : WholePlane(lastOp.faces[n], axis, 0, -1, t)
              /\ \E n \in 1 .. 6 :
                   WholePlane(lastOp.faces[n], axis, Dims(axis), 1, t)

C12_Witness ==
  /\ lastOp.op = "greedyMeshChunk"
  /\ Uniform(chunks[lastOp.key].blocks, BLOCKS.grass)
  /\ Len(lastOp.faces) = 6

\* A step that is a walking tick of updatePlayer.
WalkTick == lastOp'.op = "updatePlayer" /\ ~lastOp'.flying

\* The arguments of the call of accelerate in a walking tick of the player p.
WishDir(p, held, look) == getWishDirection(Turned(p, look), held)

WishSpeed(p) == IF p.onGround THEN MAX_SPEED_GROUND ELSE MAX_SPEED_AIR

Accel(p) == IF p.onGround THEN ACCEL_GROUND ELSE ACCEL_AIR

\* player.velocity at the call of accelerate.
EntryVelocity(p) == IF p.onGround THEN applyFriction(p.velocity) ELSE p.velocity

\* The velocity that C13 states for accelerate(wishDir, wishSpeed, accel)
\* called with player.velocity = v.
Accelerated(v, wishDir, wishSpeed, accel) ==
  IF wishSpeed - Dot(v, wishDir) <= 0 THEN v
  ELSE VAdd(v, VScale(wishDir, Min(Mul(accel, wishSpeed),
                                   wishSpeed - Dot(v, wishDir))))

\* The tick leaves the horizontal velocity at v, but for a component that a
\* collision pass zeroes.
KeepsHorizontal(after, v) ==
  after.velocity.x \in {v.x, 0} /\ after.velocity.z \in {v.z, 0}

AcceleratedAsStated(v, wishDir, wishSpeed, accel, after) ==
  /\ KeepsHorizontal(after, Accelerated(v, wishDir, wishSpeed, accel))
  /\ Dot(accelerate(v, wishDir, wishSpeed, accel), wishDir)
       <= Max(wishSpeed, Dot(v, wishDir))
  /\ (v = Zero /\ wishDir = Vec(1000, 0, 0) /\ wishSpeed = MAX_SPEED_GROUND
        /\ accel = ACCEL_GROUND)
       => accelerate(v, wishDir, wishSpeed, accel) = Vec(60, 0, 0)

\* C13: accelerate with a unit wishDir leaves the velocity unchanged when
\* wishSpeed - velocity.wishDir <= 0 and otherwise adds
\* wishDir * min(accel * wishSpeed, wishSpeed - velocity.wishDir); a grounded
\* tick from velocity (0, 0, 0) with wishDir (1, 0, 0) gives the horizontal
\* velocity (0.06, 0), and the addition never takes the speed along wishDir
\* above wishSpeed.
C13_Accelerate ==
  [][(WalkTick /\ Length(WishDir(player, lastOp'.held, lastOp'.look)) > 0)
       => AcceleratedAsStated(EntryVelocity(player),
                              WishDir(player, lastOp'.held, lastOp'.look),
                              WishSpeed(player), Accel(player), player')]_vars

\* A grounded tick from rest with KeyD held and the camera along -z has gained
\* 0.06 along x.
C13_Witness ==
  /\ lastOp.op = "updatePlayer" /\ ~lastOp.flying
  /\ lastOp.before.onGround /\ lastOp.before.velocity = Zero
  /\ lastOp.held = {"KeyD"} /\ lastOp.look = 0
  /\ player.velocity.x = 60

\* velocity.y after gravity in a walking tick of the player p.
FallSpeed(p, held) ==
  (IF p.onGround /\ "Space" \in held THEN JUMP_IMPULSE ELSE p.velocity.y) - GRAVITY

\* A column spanned by the box of the player p has a block at the height
\* feetY.
BlockUnderBox(chs, p, feetY) ==
  \E x \in Floor(p.position.x - PLAYER_WIDTH \div 2) ..
           Floor(p.position.x + PLAYER_WIDTH \div 2) :
    \E z \in Floor(p.position.z - PLAYER_WIDTH \div 2) ..
             Floor(p.position.z + PLAYER_WIDTH \div 2) :
      getBlock(chs, x, feetY, z) # BLOCKS.air

YPassAsStated(p, vy, feetY, after) ==
  IF BlockUnderBox(chunks, p, feetY)
    THEN /\ after.velocity.y = 0
         /\ after.position.y = Fixed(feetY + 1, 1)
         /\ after.onGround
    ELSE /\ after.position.y = p.position.y + vy
         /\ ~after.onGround

\* C14: in a walking tick where velocity.y after gravity is <= 0, if a column
\* spanned by the player's box has a block at feetY =
\* floor(position.y + velocity.y), the Y pass leaves velocity.y = 0,
\* position.y = feetY + 1 and onGround true; if none has, position.y becomes
\* position.y + velocity.y and onGround is false.
C14_YPass ==
  [][(WalkTick /\ FallSpeed(player, lastOp'.held) <= 0)
       => YPassAsStated(player, FallSpeed(player, lastOp'.held),
                        Floor(player.position.y + FallSpeed(player, lastOp'.held)),
                        player')]_vars

\* The player stood astride the hole and the floor, with the hole under the
\* centre of the box, and stays grounded at the same height.
C14_Witness ==
  /\ lastOp.op = "updatePlayer" /\ ~lastOp.flying
  /\ lastOp.before.position = Vec(-200, 1000, 500)
  /\ lastOp.before.velocity.y = 0
  /\ getBlock(chunks, -1, 0, 0) = BLOCKS.air
  /\ player.onGround /\ player.position.y = 1000 /\ player.velocity.y = 0

\* C15: onGround is recomputed in every walking tick: at the end of the tick
\* it is true if and only if the Y probe of that tick hit a block; a tick
\* whose velocity.y after gravity is > 0 ends with onGround false, whatever
\* onGround was before.
C15_GroundRecomputed ==
  [][WalkTick
       => /\ player'.onGround
              <=> /\ FallSpeed(player, lastOp'.held) <= 0
                  /\ BlockUnderBox(chunks, player,
                        Floor(player.position.y + FallSpeed(player, lastOp'.held)))
          /\ FallSpeed(player, lastOp'.held) > 0 => ~player'.onGround]_vars

\* A grounded player with a floor under the box ends a tick off the ground:
\* the jump took velocity.y above 0.
C15_Witness ==
  /\ lastOp.op = "updatePlayer" /\ ~lastOp.flying
  /\ lastOp.before.onGround
  /\ lastOp.before.position = Vec(500, 1000, 500)
  /\ "Space" \in lastOp.held
  /\ ~player.onGround

\* player.velocity after friction, acceleration, the jump and gravity in a
\* walking tick of the player p.
SteeredVelocity(p, held, look) == SteeredBy(Turned(p, look), held).velocity

\* The edge of the box that leads, for the centre c moving with the velocity v.
LeadingEdge(c, v) ==
  IF v > 0 THEN c + PLAYER_WIDTH \div 2 ELSE c - PLAYER_WIDTH \div 2

\* A cell (checkX, y, checkZ) is a block for some y from floor(position.y) to
\* floor(position.y + height).
BlockAhead(chs, checkX, checkZ, positionY) ==
  \E y \in Floor(positionY) .. Floor(positionY + PLAYER_HEIGHT) :
    getBlock(chs, checkX, y, checkZ) # BLOCKS.air

\* One horizontal pass as C16 states it: from the coordinate c with the
\* velocity v to the coordinate and the velocity after.
PassAsStated(c, v, blocked, cAfter, vAfter) ==
  IF v # 0 /\ blocked THEN vAfter = 0 /\ cAfter = c
  ELSE vAfter = v /\ cAfter = c + v

HorizontalPassesAsStated(p, v, after) ==
  /\ PassAsStated(p.position.x, v.x,
                  BlockAhead(chunks, Floor(LeadingEdge(p.position.x + v.x, v.x)),
                             Floor(p.position.z), after.position.y),
                  after.position.x, after.velocity.x)
  /\ PassAsStated(p.position.z, v.z,
                  BlockAhead(chunks, Floor(after.position.x),
                             Floor(LeadingEdge(p.position.z + v.z, v.z)),
                             after.position.y),
                  after.position.z, after.velocity.z)

\* C16: in a walking tick the X pass runs only if velocity.x # 0 and probes
\* the cells (floor(leading edge of the box at the tentative x), y,
\* floor(position.z)) for y from floor(position.y) to
\* floor(position.y + height): if one is a block, velocity.x becomes 0 and
\* position.x is unchanged, otherwise position.x advances by velocity.x; the
\* Z pass is symmetric, probing (floor(position.x), y, floor(leading z edge)).
C16_HorizontalPasses ==
  [][WalkTick
       => HorizontalPassesAsStated(
            player, SteeredVelocity(player, lastOp'.held, lastOp'.look), player')]_vars

\* The wall stopped the player along x, and a block at head height only
\* stopped the player along z.
C16_Witness ==
  /\ lastOp.op = "updatePlayer" /\ ~lastOp.flying
  /\ lastOp.before.position = Vec(500, 1000, 200)
  /\ lastOp.before.velocity.x = 300 /\ lastOp.before.velocity.z = -60
  /\ player.velocity.x = 0 /\ player.position.x = 500
  /\ player.velocity.z = 0 /\ player.position.z = 200
  /\ getBlock(chunks, 0, 1, -1) = BLOCKS.air

\* A walking tick with the jump: velocity.y is the impulse less gravity and
\* the player is off the ground.
Jumped(after) ==
  after.velocity.y = JUMP_IMPULSE - GRAVITY /\ ~after.onGround

\* C17 as stated: the jump impulse is applied only in a walking tick that
\* starts with onGround true and the jump key held, sets velocity.y to 0.2
\* before gravity and the tick ends with onGround false; a tick that starts
\* with onGround false never raises velocity.y.
C17_NeverRaised ==
  [][WalkTick
       => /\ (player.onGround /\ "Space" \in lastOp'.held) => Jumped(player')
          /\ ~player.onGround => player'.velocity.y <= player.velocity.y]_vars

\* C17, amended: a walking tick that starts with onGround true and the jump
\* key held sets velocity.y to 0.2 before gravity and ends with onGround
\* false; any other walking tick ends with velocity.y less gravity, or with
\* velocity.y = 0 when the Y probe hit a block, which raises a negative
\* velocity.y to 0.
C17_JumpOnlyGrounded ==
  [][WalkTick
       => IF player.onGround /\ "Space" \in lastOp'.held THEN Jumped(player')
          ELSE player'.velocity.y
                 = (IF player'.onGround THEN 0 ELSE player.velocity.y - GRAVITY)]_vars

\* The player fell on the floor with the jump key held: velocity.y went from
\* -0.5 to 0, and no impulse was applied.
C17_Witness ==
  /\ lastOp.op = "updatePlayer" /\ ~lastOp.flying
  /\ ~lastOp.before.onGround /\ lastOp.before.velocity.y = -500
  /\ "Space" \in lastOp.held
  /\ player.onGround /\ player.velocity.y = 0

\* A step that is a flying tick of updatePlayer.
FlyTick == lastOp'.op = "updatePlayer" /\ lastOp'.flying

\* The sum of the directions of the held keys in a flying tick.
FlyKeySum(p, held) ==
  VAdd(KeySum(p, held),
       Vec(0, (IF "Space" \in held THEN 1000 ELSE 0)
                - (IF "ShiftLeft" \in held THEN 1000 ELSE 0), 0))

\* v is m scaled to the length 0.3, each coordinate rounded towards zero.
AlongAtFlySpeed(v, m) ==
  /\ Abs(v.x * Length(m) - m.x * Fixed(3, 10)) < Length(m)
  /\ Abs(v.y * Length(m) - m.y * Fixed(3, 10)) < Length(m)
  /\ Abs(v.z * Length(m) - m.z * Fixed(3, 10)) < Length(m)
  /\ Length(v) \in Fixed(3, 10) - 2 .. Fixed(3, 10)

FlownAsStated(p, m, after) ==
  /\ IF m = Zero THEN after.velocity = Zero ELSE AlongAtFlySpeed(after.velocity, m)
  /\ after.position = VAdd(p.position, after.velocity)
  /\ after.onGround = p.onGround

\* C18: a flying tick sets the velocity to zero or to a vector of length 0.3
\* along the summed key directions, advances the position by that velocity,
\* applies no gravity, friction or acceleration, does not look at the chunk
\* store (the position can enter blocks) and leaves onGround unchanged.
C18_Flying ==
  [][FlyTick
       => /\ FlownAsStated(player, FlyKeySum(player, lastOp'.held), player')
          /\ chunks' = chunks]_vars

\* The player flew down into the floor.
C18_Witness ==
  /\ lastOp.op = "updatePlayer" /\ lastOp.flying
  /\ lastOp.held = {"ShiftLeft"}
  /\ lastOp.before.position = Vec(500, 1000, 500)
  /\ lastOp.before.velocity = Vec(300, -500, -60)
  /\ player.position = Vec(500, 700, 500)
  /\ getBlock(chunks, 0, 0, 0) # BLOCKS.air

\* The cell of the k-th sample of the ray is a block.
SampleSolid(chs, origin, direction, k) ==
  getBlock(chs, FloorVec(RayAt(origin, direction, RayTime(k))).x,
           FloorVec(RayAt(origin, direction, RayTime(k))).y,
           FloorVec(RayAt(origin, direction, RayTime(k))).z) # BLOCKS.air

\* The hit is null if no sample is in solid, else at the cell of the first
\* sample in solid.
FirstSolidSample(chs, origin, direction, solid, hit) ==
  IF solid = {} THEN hit = <<>>
  ELSE /\ hit # <<>>
       /\ \E k \in solid :
            /\ \A j \in solid : k <= j
            /\ hit[1].position = FloorVec(RayAt(origin, direction, RayTime(k)))

\* C19: getVoxelIntersection samples the ray at t = 0, 0.1, 0.2, ... below 10
\* and returns the floor cell of the first sample whose cell is a block; it
\* returns null if and only if no sampled cell is a block, and it does not
\* modify the chunk store.
C19_FirstHit ==
  [][lastOp'.op = "getVoxelIntersection"
       => /\ FirstSolidSample(chunks, lastOp'.origin, lastOp'.direction,
                              {k \in 0 .. RaySamples - 1 :
                                 SampleSolid(chunks, lastOp'.origin,
                                             lastOp'.direction, k)},
                              lastOp'.hit)
          /\ chunks' = chunks]_vars

\* A ray from a camera inside the wall hit at t = 0; the cell is the
\* camera's.
C19_Witness ==
  /\ lastOp.op = "getVoxelIntersection"
  /\ lastOp.hit # <<>>
  /\ lastOp.hit[1].position = FloorVec(lastOp.origin)
  /\ lastOp.direction = Vec(0, 1000, 0)

\* The unit normal on the axis against the ray of direction d.
Against(axis, d) ==
  CASE axis = 0 -> Vec(IF d.x > 0 THEN -1 ELSE 1, 0, 0)
    [] axis = 1 -> Vec(0, IF d.y > 0 THEN -1 ELSE 1, 0)
    [] axis = 2 -> Vec(0, 0, IF d.z > 0 THEN -1 ELSE 1)

\* The coordinate of d on the axis.
Along(d, axis) == CASE axis = 0 -> d.x [] axis = 1 -> d.y [] axis = 2 -> d.z

\* The axes on which d has its largest absolute coordinate.
LargestAxes(d) ==
  {a \in 0 .. 2 : \A b \in 0 .. 2 : Abs(Along(d, a)) >= Abs(Along(d, b))}

\* C20 as stated: on a hit the normal is a unit vector on the axis where the
\* ray step has the largest absolute component, pointing against the ray;
\* when two or three components tie, the axis is chosen in the order x, then
\* y, then z.
C20_TiesXFirst ==
  (lastOp.op = "getVoxelIntersection" /\ lastOp.hit # <<>>)
    => \E a \in LargestAxes(lastOp.direction) :
         /\ \A b \in LargestAxes(lastOp.direction) : a <= b
         /\ lastOp.hit[1].normal = Against(a, lastOp.direction)

\* C20, amended: on a hit the normal is a unit vector on the axis where the
\* ray step has the largest absolute component, pointing against the ray;
\* when two or three components tie, the later axis is chosen: z before y
\* before x.
C20_TiesLaterAxis ==
  (lastOp.op = "getVoxelIntersection" /\ lastOp.hit # <<>>)
    => \E a \in LargestAxes(lastOp.direction) :
         /\ \A b \in LargestAxes(lastOp.direction) : a >= b
         /\ lastOp.hit[1].normal = Against(a, lastOp.direction)

\* A ray that descends as fast as it advances along x hit the wall: the
\* normal is on y.
C20_Witness ==
  /\ lastOp.op = "getVoxelIntersection"
  /\ lastOp.direction = Vec(707, -707, 0)
  /\ lastOp.hit # <<>>
  /\ lastOp.hit[1].position = Vec(1, 2, 0)
  /\ lastOp.hit[1].normal = Vec(0, 1, 0)

\* The keys of the row of chunks at x around the chunk z.
RowKeys(x, z) ==
  {ChunkKey(x, zz) : zz \in z - RENDER_DISTANCE .. z + RENDER_DISTANCE}

\* The chunks of the rows from x on are not stored.
NoRowFrom(chs, x) == \A key \in DOMAIN chs : key[1] < x

\* C21: generateInitialWorld generates the rows of chunks in increasing
\* chunk-x order from playerChunkX - RENDER_DISTANCE to
\* playerChunkX + RENDER_DISTANCE, every chunk of a row before it yields,
\* yields once after each row, and when it completes all
\* (2 * RENDER_DISTANCE + 1)^2 chunks around the player are stored.
C21_RowsInOrder ==
  [][/\ lastOp'.op = "generateRow"
         => /\ lastOp'.row = loader.row /\ loader'.row = loader.row + 1
            /\ NoRowFrom(chunks, loader.chunkX - RENDER_DISTANCE + loader.row)
            /\ DOMAIN chunks'
                 = DOMAIN chunks
                     \cup RowKeys(loader.chunkX - RENDER_DISTANCE + loader.row,
                                  loader.chunkZ)
            /\ Len(lastOp'.made) = 2 * RENDER_DISTANCE + 1
     /\ lastOp'.op = "finishStart"
         => DOMAIN chunks
              = UNION {RowKeys(x, loader.chunkZ) :
                         x \in loader.chunkX - RENDER_DISTANCE ..
                                 loader.chunkX + RENDER_DISTANCE}]_vars

\* generateInitialWorld has completed.
C21_Witness ==
  /\ lastOp.op = "finishStart"
  /\ Cardinality(DOMAIN chunks) = (2 * RENDER_DISTANCE + 1) * (2 * RENDER_DISTANCE + 1)

\* The chunks generateInitialWorld generates around the chunk it read.
InitialKeys ==
  UNION {RowKeys(x, loader.chunkZ) :
           x \in loader.chunkX - RENDER_DISTANCE .. loader.chunkX + RENDER_DISTANCE}

\* C30: no tick of the player or the world (updatePlayer, updateWorld) runs
\* before the initial generation has completed: frames of animate interleave
\* with the yields of generateInitialWorld, but gameIsRunning becomes true
\* only after generateInitialWorld resolves, and a tick requires mouseLocked.
C30_NoTickWhileLoading ==
  [][/\ lastOp'.op = "updateWorld"
         => /\ loader.pc = "done" /\ gameIsRunning /\ mouseLocked
            /\ InitialKeys \subseteq DOMAIN created
     /\ gameIsRunning' => loader'.pc = "done"
     /\ loader'.pc # "done" => player' = player]_vars

\* A frame of animate ran between two rows of generateInitialWorld: no chunk
\* has a mesh and the player has not moved.
C30_Witness ==
  /\ lastOp.op = "animate"
  /\ loader.pc = "rows" /\ loader.row \in 1 .. 2 * RENDER_DISTANCE
  /\ ~gameIsRunning
  /\ \A key \in DOMAIN chunks : ~HasMesh(chunks[key])
  /\ player.velocity = Zero

\* C22: within one updateWorld call generation and eviction never target the
\* same coordinate: every coordinate generated in the call is within
\* RENDER_DISTANCE of the player's chunk and was absent, every coordinate
\* evicted is farther than RENDER_DISTANCE + 2 and was present, so no chunk
\* generated in a call is evicted in that call.
C22_GenerationApartFromEviction ==
  [][lastOp'.op = "updateWorld"
       => /\ \A key \in MadeBy(lastOp') :
               /\ key \notin DOMAIN chunks
               /\ key \in DOMAIN chunks'
               /\ ChunkDistance(chunks'[key], player'.position) <= RENDER_DISTANCE
          /\ \A key \in DOMAIN chunks \ DOMAIN chunks' :
               /\ ChunkDistance(chunks[key], player'.position) > RENDER_DISTANCE + 2
               /\ key \notin MadeBy(lastOp')]_vars

\* updateWorld has generated a row of chunks ahead of the player in the call
\* that dropped the row RENDER_DISTANCE + 3 chunks behind.
C22_Witness ==
  /\ lastOp.op = "updateWorld"
  /\ lastOp.made # <<>>
  /\ \E key \in DOMAIN created \ DOMAIN chunks :
       key[2] - PlayerChunk(player.position.z) = RENDER_DISTANCE + 3

\* C23: after createChunkMesh has run on a chunk whose block grid yields no
\* faces (needsUpdate is false and the grid is all air) the chunk has no
\* mesh, also when it had one before the call, and updateWorld neither counts
\* nor shows a mesh for it.
C23_NoMeshWhenEmpty ==
  \A key \in DOMAIN chunks :
    (~chunks[key].needsUpdate /\ greedyMeshChunk(chunks[key].blocks) = <<>>)
      => ~HasMesh(chunks[key])

\* The quads of faces in the plane at coordinate at of the axis.
PlaneQuads(faces, axis, at) ==
  {n \in DOMAIN faces :
     faces[n].normal[axis + 1] # 0 /\ faces[n].vertices[1][axis + 1] = at}

\* The mask with the w by h cells from (i, j) on set to 0.
Cleared(mask, i, j, w, h, du) ==
  [m \in DOMAIN mask |->
     IF m % du >= i /\ m % du < i + w /\ m \div du >= j /\ m \div du < j + h
       THEN 0 ELSE mask[m]]

\* The w by h cells of the mask from (i, j) on all hold c.
AllOf(mask, i, j, w, h, du, c) ==
  \A a \in 0 .. w - 1 : \A b \in 0 .. h - 1 : mask[i + a + (j + b) * du] = c

Least(S) == CHOOSE x \in S : \A y \in S : x <= y

\* The smallest number of rectangles of a single mask value that partition
\* the non-zero cells of the mask: the first non-zero cell in row order is
\* the low corner of its rectangle in every partition.
RECURSIVE MinRects(_, _, _)
MinRects(mask, du, dv) ==
  IF \A m \in DOMAIN mask : mask[m] = 0 THEN 0
  ELSE LET n == Least({m \in DOMAIN mask : mask[m] # 0})
           i == n % du
           j == n \div du
           fits == {wh \in (1 .. du - i) \X (1 .. dv - j) :
                      AllOf(mask, i, j, wh[1], wh[2], du, mask[n])}
       IN  1 + Least({MinRects(Cleared(mask, i, j, wh[1], wh[2], du), du, dv) :
                        wh \in fits})

\* The planes of the sweep: the axis and the slice s behind the plane.
SweepPlanes == {p \in (0 .. 2) \X (-1 .. WORLD_HEIGHT - 1) : p[2] < Dims(p[1])}

\* The number of quads in the plane p is the least possible.
PlaneMinimal(blocks, faces, p) ==
  Cardinality(PlaneQuads(faces, p[1], p[2] + 1))
    = MinRects(SliceMask(blocks, p[1], p[2]), Dims((p[1] + 1) % 3),
               Dims((p[1] + 2) % 3))

\* C24 as stated: for every sweep plane of every chunk grid the number of
\* quads greedyMeshChunk emits for that plane is minimal: it equals the
\* smallest number of axis-aligned rectangles of a single mask value that
\* exactly partition the plane's non-zero mask cells.
C24_MinimalQuads ==
  lastOp.op = "greedyMeshChunk"
    => \A p \in SweepPlanes :
         PlaneMinimal(chunks[lastOp.key].blocks, lastOp.faces, p)

\* The quad n of faces in the plane p is a rectangle of one mask value that
\* the scan could extend neither along u, where the next cell is outside the
\* plane, of another value or covered by an earlier quad, nor then along v,
\* where the next row is outside the plane or does not match the whole run.
QuadIsGreedy(mask, faces, n, p) ==
  LET u == (p[1] + 1) % 3
      v == (p[1] + 2) % 3
      du == Dims(u)
      dv == Dims(v)
      i == LowOf(faces[n], u)
      j == LowOf(faces[n], v)
      w == HighOf(faces[n], u) - i
      h == HighOf(faces[n], v) - j
      c == mask[i + j * du]
  IN  /\ c # 0 /\ w >= 1 /\ h >= 1
      /\ AllOf(mask, i, j, w, h, du, c)
      /\ \/ i + w = du
         \/ mask[i + w + j * du] # c
         \/ \E m \in PlaneQuads(faces, p[1], p[2] + 1) :
              m < n /\ Covers(faces[m], p[1], p[2] + 1, i + w, j)
      /\ \/ j + h = dv
         \/ \E a \in 0 .. w - 1 : mask[i + a + (j + h) * du] # c

\* C24, amended: the quads greedyMeshChunk emits for a sweep plane are those
\* of its row-order scan, each a rectangle of one mask value extended as far
\* as it goes along u and then along v; their number is at least the smallest
\* number of such rectangles that partition the plane's non-zero mask cells
\* and can exceed it.
C24_GreedyQuads ==
  lastOp.op = "greedyMeshChunk"
    => \A p \in SweepPlanes :
         /\ \A n \in PlaneQuads(lastOp.faces, p[1], p[2] + 1) :
              QuadIsGreedy(SliceMask(chunks[lastOp.key].blocks, p[1], p[2]),
                           lastOp.faces, n, p)
         /\ Cardinality(PlaneQuads(lastOp.faces, p[1], p[2] + 1))
              >= MinRects(SliceMask(chunks[lastOp.key].blocks, p[1], p[2]),
                          Dims((p[1] + 1) % 3), Dims((p[1] + 2) % 3))

\* A meshed grid with a plane for which the scan emits more quads than the
\* least number of rectangles.
C24_Witness ==
  /\ lastOp.op = "greedyMeshChunk"
  /\ \E p \in SweepPlanes :
       ~PlaneMinimal(chunks[lastOp.key].blocks, lastOp.faces, p)

\* The coordinate after a horizontal pass from c with the velocity v # 0 was
\* kept exactly if the pass was blocked, and advanced by v otherwise.
Committed(c, v, blocked, cAfter) ==
  v # 0 => (cAfter = (IF blocked THEN c ELSE c + v))

\* The passes in the order Y, X, Z, each on the position the earlier passes
\* committed: Y on the old x and z, X on the new y and the old z, Z on the
\* new y and the new x.
PassesInOrder(p, v, after) ==
  /\ after.position.y
       = (IF v.y <= 0 /\ BlockUnderBox(chunks, p, Floor(p.position.y + v.y))
            THEN Fixed(Floor(p.position.y + v.y) + 1, 1)
            ELSE p.position.y + v.y)
  /\ Committed(p.position.x, v.x,
               BlockAhead(chunks, Floor(LeadingEdge(p.position.x + v.x, v.x)),
                          Floor(p.position.z), after.position.y),
               after.position.x)
  /\ Committed(p.position.z, v.z,
               BlockAhead(chunks, Floor(after.position.x),
                          Floor(LeadingEdge(p.position.z + v.z, v.z)),
                          after.position.y),
               after.position.z)

\* C25: in a non-flying tick collision is resolved in the order Y, then X,
\* then Z, and position is committed per axis right after that axis's pass:
\* the X pass uses the already updated position.y and the old position.z,
\* and the Z pass uses the already updated position.y and position.x.
C25_PassOrder ==
  [][WalkTick
       => PassesInOrder(player, SteeredVelocity(player, lastOp'.held, lastOp'.look),
                        player')]_vars

\* The player fell from above the wall to the height of its top while moving
\* towards it: the X pass was blocked at the new position.y, which it would
\* not have been at the old one.
C25_Witness ==
  /\ lastOp.op = "updatePlayer" /\ ~lastOp.flying
  /\ lastOp.before.position = Vec(500, 3005, 500)
  /\ lastOp.before.velocity.x = 300
  /\ player.position = Vec(500, 2495, 500)
  /\ player.velocity.x = 0
  /\ ~BlockAhead(chunks, 1, 0, lastOp.before.position.y)

\* The world coordinates of the cells of the chunk with the key.
CellsOf(key) ==
  {<<key[1] * CHUNK_SIZE + lx, y, key[2] * CHUNK_SIZE + lz>> :
     lx \in 0 .. CHUNK_SIZE - 1, y \in 0 .. WORLD_HEIGHT - 1,
     lz \in 0 .. CHUNK_SIZE - 1}

\* C26: when the chunk owning (x, z) is already stored, setBlock(x, y, z, T)
\* changes the block at no world coordinate other than (x, y, z): getBlock at
\* every other coordinate, in the same chunk and in every other chunk,
\* returns the same value as before, and no chunk is added or removed.
C26_OtherCellsKept ==
  [][(lastOp'.op = "setBlock" /\ OwnerKey(lastOp'.x, lastOp'.z) \in DOMAIN chunks)
       => /\ DOMAIN chunks' = DOMAIN chunks
          /\ created' = created /\ lastOp'.made = <<>>
          /\ \A key \in DOMAIN chunks : \A c \in CellsOf(key) :
               c # <<lastOp'.x, lastOp'.y, lastOp'.z>>
                 => getBlock(chunks', c[1], c[2], c[3])
                      = getBlock(chunks, c[1], c[2], c[3])]_vars

\* Bricks were set at negative x and z in a stored chunk, whose cell at the
\* opposite corner of the bottom layer still holds a block of the terrain.
C26_Witness ==
  /\ lastOp.op = "setBlock" /\ lastOp.made = <<>>
  /\ <<lastOp.x, lastOp.y, lastOp.z>> = <<-1, 0, -1>>
  /\ lastOp.blockType = BLOCKS.bricks
  /\ getBlock(chunks, -1, 0, -1) = BLOCKS.bricks
  /\ getBlock(chunks, -CHUNK_SIZE, 0, -CHUNK_SIZE) \notin {BLOCKS.air, BLOCKS.bricks}

\* The chunk after is the chunk before but for the visibility of its mesh.
NotRemeshed(before, after) ==
  /\ after.needsUpdate = before.needsUpdate
  /\ after.blocks = before.blocks
  /\ HasMesh(after) = HasMesh(before)
  /\ HasMesh(after)
       => /\ after.mesh[1].faces = before.mesh[1].faces
          /\ after.mesh[1].disposed = before.mesh[1].disposed

\* C27: when updateWorld returns, every stored chunk whose bounding box
\* intersects the view frustum has needsUpdate = false (every dirty visible
\* chunk, newly generated ones included, is remeshed in that same call),
\* while a stored chunk outside the frustum keeps its needsUpdate flag and is
\* not remeshed.
C27_VisibleChunksClean ==
  [][lastOp'.op = "updateWorld"
       => \A key \in DOMAIN chunks' :
            IF IntersectsBox(lastOp'.look, player'.position, chunks'[key])
              THEN ~chunks'[key].needsUpdate
              ELSE IF key \in DOMAIN chunks
                THEN NotRemeshed(chunks[key], chunks'[key])
                ELSE chunks'[key].needsUpdate /\ ~HasMesh(chunks'[key])]_vars

\* updateWorld has generated chunks ahead of the player and meshed them in
\* the same call, and has left dirty a meshed chunk behind the player.
C27_Witness ==
  /\ lastOp.op = "updateWorld"
  /\ lastOp.made # <<>>
  /\ \A key \in MadeBy(lastOp) :
       /\ IntersectsBox(lastOp.look, player.position, chunks[key])
       /\ HasMesh(chunks[key]) /\ ~chunks[key].needsUpdate
  /\ \E key \in DOMAIN chunks :
       /\ ~IntersectsBox(lastOp.look, player.position, chunks[key])
       /\ HasMesh(chunks[key]) /\ chunks[key].needsUpdate

\* C28: at the end of every non-flying tick, onGround = true implies
\* velocity.y = 0 and position.y is an integer with
\* 1 <= position.y <= WORLD_HEIGHT: the player can only be grounded on a
\* block inside the world's vertical range.
C28_GroundedInWorld ==
  [][(WalkTick /\ player'.onGround)
       => /\ player'.velocity.y = 0
          /\ player'.position.y = Fixed(Floor(player'.position.y), 1)
          /\ Floor(player'.position.y) \in 1 .. WORLD_HEIGHT
          /\ BlockUnderBox(chunks, player, Floor(player'.position.y) - 1)]_vars

\* The player fell from just above the floor and rests on it.
C28_Witness ==
  /\ lastOp.op = "updatePlayer" /\ ~lastOp.flying
  /\ lastOp.before.position.y = 1005 /\ lastOp.before.velocity.y = -500
  /\ ~lastOp.before.onGround
  /\ player.onGround /\ player.position.y = 1000 /\ player.velocity.y = 0

\* The block of the cell that holds the point position.
CellAt(chs, position) ==
  getBlock(chs, Floor(position.x), Floor(position.y), Floor(position.z))

====
